---- MODULE Spec2Model ----
(***************************************************************************)
(* A model of the Clean Eats costing app: unit conversion, ingredient      *)
(* cost, the meal builder (meal_builder.py and its older copy kept in      *)
(* business_costs.py), the costing dashboard of dashboard.py and the       *)
(* single-file app of app.py that shares stored_total_summary.csv with it. *)
(*                                                                         *)
(* Numbers.  The program computes with Python floats.  The model computes  *)
(* with exact rationals, written w + n/d with 0 <= n < d and n/d in lowest *)
(* terms (w is the floor, so -1/2 is -1 + 1/2), so that /1000, *1000,      *)
(* Cost / Purchase Size, the margins and round(x, k) are computed, not     *)
(* assumed.  A denominator of 0 marks the floats that are no number: NaN,  *)
(* inf and -inf.  Binary rounding error of the floats is not modelled.     *)
(***************************************************************************)
EXTENDS Integers, Sequences, FiniteSets, TLC

VARIABLES
    page,             \* which module serves the Meals tab: "meal_builder" or "business_costs"
    cv_pc,            \* conversion harness: "in", "base", "display", "trip"
    cv_qty,           \* conversion harness: the quantity passed in
    cv_unit,          \* conversion harness: the display unit string passed in
    cv_type,          \* conversion harness: the base unit type string passed in
    cv_out,           \* conversion harness: the value returned
    ingredients,      \* data/ingredients.csv on the local disk: the rows, in order
    gh_ingredients,   \* data/ingredients.csv as GitHub serves it: the rows, or Absent (404)
    pending_ings,     \* st.session_state["pending_ings"]: the draft rows, in order
    meals,            \* data/meals.csv on the local disk: the rows, in order
    meal_name,        \* st.session_state["meal_name"] as business_costs.py reads it outside its form
    meal_ingredients, \* st.session_state["meal_ingredients"]: the draft line items
    editing_meal,     \* st.session_state["editing_meal"]: the meal in the editor, or None
    edit_df,          \* st.session_state["edit_<meal>"]: per meal, the editor's rows or NoEdit
    msg,              \* the screen after the last run: the message of the Meals tab, "" for none
    dash,             \* the screen after the last run: the dashboard's Ingredients column, or NoDash
    costing,          \* the screen after the last run: display_df and overall_pct of dashboard.py, or NoCosting
    total_df,         \* stored_total_summary.csv, and st.session_state.total_df of app.py written with it
    ingredients_df,   \* ingredients.csv of app.py, and st.session_state.ingredients_df written with it
    business_costs_df,\* business_costs.csv of app.py, and st.session_state.business_costs_df
    app_screen,       \* the screen of app.py after its last run: tab1's table, tab3's costs, or NoApp
    session_keys,     \* which of "authenticated" and "login_time" st.session_state holds
    authenticated,    \* st.session_state.authenticated (FALSE while the key is missing)
    login_time,       \* st.session_state.login_time (0 while the key is missing)
    now,              \* time.time(), in seconds
    submitted,        \* whether the queued run was started by the login form's Enter button
    input_pw,         \* the text in the Password box
    auth_pc,          \* the gate: "queued" (a run is due), "rerun", "form" or "app"
    auth_msg          \* the message the last run of the gate showed, "" for none

convVars == <<cv_pc, cv_qty, cv_unit, cv_type, cv_out>>

ingVars == <<ingredients, gh_ingredients, pending_ings>>

authVars ==
    <<session_keys, authenticated, login_time, now, submitted, input_pw, auth_pc, auth_msg>>

mealVars == <<meals, meal_name, meal_ingredients, editing_meal, edit_df, msg, dash>>

appVars == <<total_df, ingredients_df, business_costs_df, app_screen>>

costVars == <<costing, total_df, ingredients_df, business_costs_df, app_screen>>

vars == <<page, cv_pc, cv_qty, cv_unit, cv_type, cv_out,
          ingredients, gh_ingredients, pending_ings,
          meals, meal_name, meal_ingredients, editing_meal, edit_df, msg, dash,
          costing, total_df, ingredients_df, business_costs_df, app_screen,
          session_keys, authenticated, login_time, now, submitted, input_pw, auth_pc,
          auth_msg>>

Pages == {"meal_builder", "business_costs"}

\* Python's None, where a string is expected.
None == "<None>"

-----------------------------------------------------------------------------
(* Exact arithmetic                                                        *)

RECURSIVE GCD(_, _)
GCD(a, b) == IF b = 0 THEN a ELSE GCD(b, a % b)

LCM(a, b) == (a \div GCD(a, b)) * b

\* w + n/d brought to normal form (n >= 0, d > 0).
Num(w, n, d) ==
    LET r == n % d
        g == GCD(r, d)
    IN  [w |-> w + (n \div d), n |-> r \div g, d |-> d \div g]

RInt(k) == [w |-> k, n |-> 0, d |-> 1]

Frac(a, b) == Num(0, a, b)

Zero == RInt(0)

IsZero(x) == x.w = 0 /\ x.n = 0

\* x <= 0, for x >= 0 the same as x = 0
LeZero(x) == x.w < 0 \/ IsZero(x)

\* x < 1
LtOne(x) == x.w < 1

RAdd(x, y) ==
    LET l == LCM(x.d, y.d)
    IN  Num(x.w + y.w, x.n * (l \div x.d) + y.n * (l \div y.d), l)

\* x * y for x, y >= 0
RMul(x, y) ==
    RAdd(RAdd(RInt(x.w * y.w), Num(0, x.w * y.n, y.d)),
         RAdd(Num(0, y.w * x.n, x.d), Num(0, x.n * y.n, x.d * y.d)))

\* x / k for an integer k > 0
RDivInt(x, k) ==
    LET q == x.w \div k
        r == x.w % k
    IN  RAdd(RInt(q), Num(0, r * x.d + x.n, x.d * k))

\* x * k for an integer k >= 0
RMulInt(x, k) == Num(x.w * k, x.n * k, x.d)

\* x / y for x >= 0, y > 0
RDiv(x, y) == RMul(x, Frac(y.d, y.w * y.d + y.n))

Thousand == 1000

\* round(x, 6) of Python for x >= 0: to the nearest multiple of 10^-6, a tie
\* to the even one.  The digits are produced three at a time.
Round6(x) ==
    IF (Thousand * Thousand) % x.d = 0 THEN x
    ELSE LET t1 == x.n * Thousand
             a  == t1 \div x.d
             r1 == t1 % x.d
             t2 == r1 * Thousand
             b  == t2 \div x.d
             r2 == t2 % x.d
             f  == a * Thousand + b
             up == IF 2 * r2 > x.d \/ (2 * r2 = x.d /\ f % 2 = 1) THEN 1 ELSE 0
         IN  Num(x.w, f + up, Thousand * Thousand)

\* -x
RNeg(x) == Num(-x.w, -x.n, x.d)

\* x - y
RSub(x, y) == RAdd(x, RNeg(y))

\* x < 0
IsNeg(x) == x.w < 0

\* x <= y
RLe(x, y) == ~IsNeg(RSub(y, x))

\* x / y for y # 0, of either sign
RQuot(x, y) == IF IsNeg(y) THEN RNeg(RDiv(x, RNeg(y))) ELSE RDiv(x, y)

Hundred == 100

\* round(x, k) of Python for s = 10^k: to the nearest multiple of 1/s, a tie
\* to the even one.
RoundTo(x, s) ==
    IF s % x.d = 0 THEN x
    ELSE LET t  == x.n * s
             f  == t \div x.d
             r  == t % x.d
             up == IF 2 * r > x.d \/ (2 * r = x.d /\ f % 2 = 1) THEN 1 ELSE 0
         IN  Num(x.w, f + up, s)

\* round(x, 2)
Round2(x) == RoundTo(x, Hundred)

\* round(x, 4)
Round4(x) == RoundTo(x, Hundred * Hundred)

\* The floats inf and -inf.
PosInf == [w |-> 1, n |-> 0, d |-> 0]

NegInf == [w |-> -1, n |-> 0, d |-> 0]

-----------------------------------------------------------------------------
(* Strings                                                                 *)

\* s or ""
OrEmpty(s) == IF s = None THEN "" ELSE s

\* str.upper() on the strings of the model
Upper(s) ==
    CASE s \in {"kg", "Kg", "KG"}          -> "KG"
      [] s \in {"l", "L"}                 -> "L"
      [] s \in {"unit", "Unit", "UNIT"}   -> "UNIT"
      [] s \in {"bag", "BAG"}             -> "BAG"
      [] OTHER                            -> s

\* str.lower() on the strings of the model
Lower(s) ==
    CASE s \in {"g", "G"}                 -> "g"
      [] s \in {"gram", "Gram"}           -> "gram"
      [] s \in {"grams", "GRAMS"}         -> "grams"
      [] s \in {"kg", "Kg", "KG"}         -> "kg"
      [] s \in {"ml", "ML"}               -> "ml"
      [] s \in {"l", "L"}                 -> "l"
      [] s \in {"unit", "Unit", "UNIT"}   -> "unit"
      [] OTHER                            -> s

-----------------------------------------------------------------------------
(* Unit conversion: meal_builder.py                                        *)

\* display_to_base with "gram" and "grams" forgotten
display_to_base_OnlyG(qty, display_unit, base_unit_type) ==
    LET t == Upper(OrEmpty(base_unit_type))
        u == Lower(OrEmpty(display_unit))
    IN  IF t = "KG"
        THEN (IF u = "g" THEN RDivInt(qty, Thousand) ELSE qty)
        ELSE IF t = "L"
        THEN (IF u = "ml" THEN RDivInt(qty, Thousand) ELSE qty)
        ELSE qty

\* display_to_base with the litre branch comparing against "l" instead of "ml"
display_to_base_NoMl(qty, display_unit, base_unit_type) ==
    LET t == Upper(OrEmpty(base_unit_type))
        u == Lower(OrEmpty(display_unit))
    IN  IF t = "KG"
        THEN (IF u \in {"g", "gram", "grams"} THEN RDivInt(qty, Thousand) ELSE qty)
        ELSE IF t = "L"
        THEN (IF u = "l" THEN RDivInt(qty, Thousand) ELSE qty)
        ELSE qty

display_to_base(qty, display_unit, base_unit_type) ==
    LET t == Upper(OrEmpty(base_unit_type))
        u == Lower(OrEmpty(display_unit))
    IN  IF t = "KG"
        THEN (IF u \in {"g", "gram", "grams"} THEN RDivInt(qty, Thousand) ELSE qty)
        ELSE IF t = "L"
        THEN (IF u = "ml" THEN RDivInt(qty, Thousand) ELSE qty)
        ELSE qty

\* base_to_display with the threshold test written <= 1
base_to_display_LeOne(qty, base_unit_type) ==
    LET t == Upper(OrEmpty(base_unit_type))
        small == LtOne(qty) \/ qty = RInt(1)
    IN  IF t = "KG"
        THEN (IF small THEN <<RMulInt(qty, Thousand), "g">> ELSE <<qty, "kg">>)
        ELSE IF t = "L"
        THEN (IF small THEN <<RMulInt(qty, Thousand), "ml">> ELSE <<qty, "L">>)
        ELSE <<qty, "unit">>

base_to_display(qty, base_unit_type) ==
    LET t == Upper(OrEmpty(base_unit_type))
    IN  IF t = "KG"
        THEN (IF LtOne(qty) THEN <<RMulInt(qty, Thousand), "g">> ELSE <<qty, "kg">>)
        ELSE IF t = "L"
        THEN (IF LtOne(qty) THEN <<RMulInt(qty, Thousand), "ml">> ELSE <<qty, "L">>)
        ELSE <<qty, "unit">>

get_display_unit_options(base_unit_type) ==
    LET t == Upper(OrEmpty(base_unit_type))
    IN  IF t = "KG" THEN <<"kg", "g">>
        ELSE IF t = "L" THEN <<"L", "ml">>
        ELSE <<"unit">>

(* Unit conversion: business_costs.py                                      *)

bc_display_to_base(qty, display_unit, base_unit_type) ==
    LET t == Upper(OrEmpty(base_unit_type))
        u == Lower(OrEmpty(display_unit))
    IN  IF t = "KG"
        THEN (IF u \in {"g", "gram", "grams"} THEN RDivInt(qty, Thousand) ELSE qty)
        ELSE IF t = "L"
        THEN (IF u \in {"ml"} THEN RDivInt(qty, Thousand) ELSE qty)
        ELSE IF t = "UNIT" THEN qty
        ELSE qty

bc_base_to_display(qty_base, base_unit_type) ==
    LET t == Upper(OrEmpty(base_unit_type))
    IN  IF t = "KG"
        THEN (IF LtOne(qty_base) THEN <<RMulInt(qty_base, Thousand), "g">> ELSE <<qty_base, "kg">>)
        ELSE IF t = "L"
        THEN (IF LtOne(qty_base) THEN <<RMulInt(qty_base, Thousand), "ml">> ELSE <<qty_base, "L">>)
        ELSE IF t = "UNIT" THEN <<qty_base, "unit">>
        ELSE <<qty_base, "">>

bc_get_display_unit_options(base_unit_type) ==
    LET t == Upper(OrEmpty(base_unit_type))
    IN  IF t = "KG" THEN <<"kg", "g">>
        ELSE IF t = "L" THEN <<"L", "ml">>
        ELSE IF t = "UNIT" THEN <<"unit">>
        ELSE <<"">>

\* The conversion of the module that serves the page.
ToBase(p, qty, u, t) ==
    IF p = "meal_builder" THEN display_to_base(qty, u, t) ELSE bc_display_to_base(qty, u, t)

ToDisplay(p, qty, t) ==
    IF p = "meal_builder" THEN base_to_display(qty, t) ELSE bc_base_to_display(qty, t)

UnitOptions(p, t) ==
    IF p = "meal_builder" THEN get_display_unit_options(t) ELSE bc_get_display_unit_options(t)

-----------------------------------------------------------------------------
(* Ingredients: ingredients.py                                             *)

\* The remote file does not exist (the GET answers 404).
Absent == [found |-> FALSE, rows |-> <<>>]

\* The remote file exists and holds these rows.
Remote(rows) == [found |-> TRUE, rows |-> rows]

\* str.strip().title() on the names of the model
StripTitle(s) ==
    CASE s \in {"flour", "Flour", " flour "} -> "Flour"
      [] s \in {"milk", "Milk"}              -> "Milk"
      [] s \in {"egg", "Egg"}                -> "Egg"
      [] s \in {"", " "}                     -> ""
      [] OTHER                               -> s

\* str.strip().upper() on the unit types of the model
StripUpper(s) == Upper(s)

Ingredient(name, ut, size, cost, cpu) ==
    [Ingredient |-> name, UnitType |-> ut, PurchaseSize |-> size, Cost |-> cost,
     CostPerUnit |-> cpu]

\* cpu = cost / size if size else 0.0   (the Add Ingredient form)
form_cost_per_unit(size, cost) == IF IsZero(size) THEN Zero ELSE RDiv(cost, size)

\* df["Cost"] / df["Purchase Size"].replace(0, 1)   (the load from GitHub)
github_cost_per_unit(size, cost) == RDiv(cost, IF IsZero(size) THEN RInt(1) ELSE size)

\* The rows read from GitHub, as load_ingredients normalises them.
NormaliseRemote(rows) ==
    [i \in 1..Len(rows) |->
        Ingredient(StripTitle(rows[i].Ingredient), StripUpper(rows[i].UnitType),
                   rows[i].PurchaseSize, rows[i].Cost,
                   github_cost_per_unit(rows[i].PurchaseSize, rows[i].Cost))]

\* load_ingredients() of ingredients.py: the rows it returns.  get_ok: the
\* GET succeeded.  On a 200 the normalised rows are also written to the
\* local file (IngLoadFile); otherwise the local file is read.
IngLoad(get_ok, local, remote) ==
    IF get_ok /\ remote.found THEN NormaliseRemote(remote.rows) ELSE local

\* The local file after load_ingredients().
IngLoadFile(get_ok, local, remote) == IngLoad(get_ok, local, remote)

\* commit_file_to_github: the remote file afterwards.  put_ok: the secrets
\* are there and the PUT answered 200 or 201.
Commit(put_ok, content, remote) == IF put_ok THEN Remote(content) ELSE remote

-----------------------------------------------------------------------------
(* The meal builder: meal_builder.py                                       *)

\* A column the row does not have (NaN once the row is in a DataFrame).
NA == "<NA>"

\* A numeric column the row does not have.
NaN == [w |-> 0, n |-> 0, d |-> 0]

\* st.session_state has no editor rows for the meal / has these rows.
NoEdit == [loaded |-> FALSE, rows |-> <<>>]

Editing(rows) == [loaded |-> TRUE, rows |-> rows]

\* str.strip() on the meal names of the model
Strip(s) ==
    CASE s \in {"", " "}   -> ""
      [] s \in {"A", "A "} -> "A"
      [] s \in {"B", "B "} -> "B"
      [] OTHER             -> s

Row(meal, ing, qty, cpu, total, unit, ut, price) ==
    [Meal |-> meal, Ingredient |-> ing, Quantity |-> qty, CostPerUnit |-> cpu,
     TotalCost |-> total, InputUnit |-> unit, UnitType |-> ut, SellPrice |-> price]

\* df[df["Meal"] == mn], re-indexed from 1
MealRows(df, mn) == LET Is(r) == r.Meal = mn IN SelectSeq(df, Is)

\* OtherRows cut at the first row of mn: the rows before it only
OtherRows_UpTo(df, mn) ==
    LET first == IF MealRows(df, mn) = <<>> THEN Len(df) + 1
                 ELSE CHOOSE i \in 1..Len(df) :
                          df[i].Meal = mn /\ \A j \in 1..(i - 1) : df[j].Meal # mn
    IN  SubSeq(df, 1, first - 1)

\* df[df["Meal"] != mn]
OtherRows(df, mn) == LET IsNot(r) == r.Meal # mn IN SelectSeq(df, IsNot)

\* list(meals_df["Meal"].unique())
MealsOf(df) == {df[i].Meal : i \in 1..Len(df)}

\* df.drop(idx).reset_index(drop=True), idx counted from 1
DropAt(df, idx) == [i \in 1..(Len(df) - 1) |-> IF i < idx THEN df[i] ELSE df[i + 1]]

\* load_ingredients() of meal_builder.py: the local file, with the names and
\* unit types normalised.  The file ingredients.py writes has the Cost Per
\* Unit column, so the column is taken as stored.
load_ingredients(file) ==
    [i \in 1..Len(file) |->
        [file[i] EXCEPT !.Ingredient = StripTitle(@), !.UnitType = StripUpper(@)]]

\* ing_df[ing_df["Ingredient"] == sel]
Matching(df, sel) == LET Is(r) == r.Ingredient = sel IN SelectSeq(df, Is)

\* sorted(ing_df["Ingredient"].unique()), as a set
Options(df) == {df[i].Ingredient : i \in 1..Len(df)}

\* mb_entry with the total left unrounded
mb_entry_NoRound(file, sel, qty, unit) ==
    LET row    == Matching(load_ingredients(file), sel)[1]
        base_q == display_to_base(qty, unit, row.UnitType)
        cpu    == row.CostPerUnit
        total  == RMul(base_q, cpu)
    IN  Row(NA, sel, base_q, cpu, total, unit, row.UnitType, NaN)

\* The line item add_temp and add_edit_callback build.
mb_entry(file, sel, qty, unit) ==
    LET row    == Matching(load_ingredients(file), sel)[1]
        base_q == display_to_base(qty, unit, row.UnitType)
        cpu    == row.CostPerUnit
        total  == Round6(RMul(base_q, cpu))
    IN  Row(NA, sel, base_q, cpu, total, unit, row.UnitType, NaN)

add_temp(draft, file, sel, qty, unit) == Append(draft, mb_entry(file, sel, qty, unit))

\* mb_add_clicked without the test of the quantity
mb_add_clicked_NoQtyCheck(draft, file, name, sel, qty, unit) ==
    IF Strip(name) = ""
    THEN [meal_ingredients |-> draft, msg |-> "Enter a meal name first."]
    ELSE IF sel = None
    THEN [meal_ingredients |-> draft, msg |-> "Select an ingredient."]
    ELSE IF Matching(load_ingredients(file), sel) = <<>>
    THEN [meal_ingredients |-> draft, msg |-> "IndexError"]
    ELSE [meal_ingredients |-> Append(draft, mb_entry(file, sel, qty, unit)), msg |-> ""]

\* render(), add_clicked: the draft and the message afterwards.
mb_add_clicked(draft, file, name, sel, qty, unit) ==
    IF Strip(name) = ""
    THEN [meal_ingredients |-> draft, msg |-> "Enter a meal name first."]
    ELSE IF LeZero(qty)
    THEN [meal_ingredients |-> draft, msg |-> "Quantity must be > 0."]
    ELSE IF sel = None
    THEN [meal_ingredients |-> draft, msg |-> "Select an ingredient."]
    ELSE IF Matching(load_ingredients(file), sel) = <<>>
    THEN [meal_ingredients |-> draft, msg |-> "IndexError"]
    ELSE [meal_ingredients |-> add_temp(draft, file, sel, qty, unit), msg |-> ""]

\* save_new_meal: the rows of meals.csv afterwards.
save_new_meal(mdf, draft, name, price) ==
    mdf \o [i \in 1..Len(draft) |->
                [draft[i] EXCEPT !.Meal = Strip(name), !.SellPrice = price]]

\* mb_save_clicked without the test for an empty draft
mb_save_clicked_AcceptEmpty(mdf, draft, name, price) ==
    IF Strip(name) = ""
    THEN [meals |-> mdf, meal_ingredients |-> draft, msg |-> "Enter a meal name."]
    ELSE [meals |-> save_new_meal(mdf, draft, name, price), meal_ingredients |-> <<>>,
          msg |-> "Meal saved!"]

\* render(), save_clicked: the file, the draft and the message afterwards.
mb_save_clicked(mdf, draft, name, price) ==
    IF draft = <<>>
    THEN [meals |-> mdf, meal_ingredients |-> draft,
          msg |-> "Add at least one ingredient before saving."]
    ELSE IF Strip(name) = ""
    THEN [meals |-> mdf, meal_ingredients |-> draft, msg |-> "Enter a meal name."]
    ELSE [meals |-> save_new_meal(mdf, draft, name, price), meal_ingredients |-> <<>>,
          msg |-> "Meal saved!"]

add_edit_callback(df_edit, file, sel, amt, unit) ==
    Append(df_edit, mb_entry(file, sel, amt, unit))

\* render(), the Add Ingredient form of the editor: the editor's rows and the
\* message afterwards.
mb_edit_add_clicked(df_edit, file, sel, qty, unit) ==
    IF sel = None
    THEN [edit |-> df_edit, msg |-> "Select an ingredient."]
    ELSE IF LeZero(qty)
    THEN [edit |-> df_edit, msg |-> "Quantity must be > 0."]
    ELSE IF Matching(load_ingredients(file), sel) = <<>>
    THEN [edit |-> df_edit, msg |-> "IndexError"]
    ELSE [edit |-> add_edit_callback(df_edit, file, sel, qty, unit), msg |-> ""]

\* What the editor's widgets of a row show when the user has not touched
\* them: number_input(value=qty_val) and selectbox(index of Input Unit).
mb_default_qty(r) == base_to_display(r.Quantity, r.UnitType)[1]

mb_default_unit(r) == r.InputUnit

\* mb_save_rows with the price looked up in the ingredient file again
mb_save_rows_LivePrice(df_edit, wq, wu) ==
    [i \in 1..Len(df_edit) |->
        LET r      == df_edit[i]
            base_q == display_to_base(wq[i], wu[i], r.UnitType)
            found  == Matching(load_ingredients(ingredients), r.Ingredient)
            cpu    == IF found = <<>> THEN r.CostPerUnit ELSE found[1].CostPerUnit
        IN  [r EXCEPT !.Quantity = base_q, !.InputUnit = wu[i], !.CostPerUnit = cpu,
                      !.TotalCost = Round6(RMul(base_q, cpu))]]

\* save_edit_meal, the loop over the rows: wq and wu are the values of the
\* quantity and unit widgets, row by row.
mb_save_rows(df_edit, wq, wu) ==
    [i \in 1..Len(df_edit) |->
        LET r      == df_edit[i]
            base_q == display_to_base(wq[i], wu[i], r.UnitType)
        IN  [r EXCEPT !.Quantity = base_q, !.InputUnit = wu[i],
                      !.TotalCost = Round6(RMul(base_q, r.CostPerUnit))]]

\* save_edit_meal with the Total Cost of a row left as it was stored
save_edit_meal_KeepTotal(all_meals, df_edit, mn, wq, wu, rename, pr) ==
    LET nm   == IF Strip(rename) = "" THEN mn ELSE Strip(rename)
        rows == mb_save_rows(df_edit, wq, wu)
    IN  OtherRows(all_meals, mn)
            \o [i \in 1..Len(rows) |->
                    [rows[i] EXCEPT !.Meal = nm, !.SellPrice = pr,
                                    !.TotalCost = df_edit[i].TotalCost]]

\* save_edit_meal: the rows of meals.csv afterwards.
save_edit_meal(all_meals, df_edit, mn, wq, wu, rename, pr) ==
    LET nm   == IF Strip(rename) = "" THEN mn ELSE Strip(rename)
        rows == mb_save_rows(df_edit, wq, wu)
    IN  OtherRows(all_meals, mn)
            \o [i \in 1..Len(rows) |-> [rows[i] EXCEPT !.Meal = nm, !.SellPrice = pr]]

-----------------------------------------------------------------------------
(* The meal builder: business_costs.py                                     *)

\* load_ingredients() of business_costs.py: the local file, with the names
\* and unit types normalised.
bc_load_ingredients(file) ==
    [i \in 1..Len(file) |->
        [file[i] EXCEPT !.Ingredient = StripTitle(@), !.UnitType = StripUpper(@)]]

\* str(x).strip().lower() of a selection
bc_key(sel) == IF sel = None THEN "none" ELSE Lower(Strip(sel))

\* ingredients_df[ingredients_df["Ingredient"].str.lower() == str(sel).strip().lower()]
bc_match(df, sel) == LET Is(r) == Lower(r.Ingredient) = bc_key(sel) IN SelectSeq(df, Is)

\* info.iloc[0].get("Unit Type", "") if not info.empty else ""
bc_base_unit(df, sel) == IF bc_match(df, sel) = <<>> THEN "" ELSE bc_match(df, sel)[1].UnitType

\* The line item the add form builds.
bc_entry(file, sel, qty, unit) ==
    LET row      == bc_match(bc_load_ingredients(file), sel)[1]
        cpu      == row.CostPerUnit
        qty_base == bc_display_to_base(qty, unit, row.UnitType)
    IN  Row(NA, sel, qty_base, cpu, Round6(RMul(qty_base, cpu)), unit, NA, NaN)

\* bc_submitted with an ingredient that is not found taken at cost 0
bc_submitted_CostZero(draft, file, name, sel, qty, unit) ==
    IF Strip(name) = ""
    THEN [meal_ingredients |-> draft,
          msg |-> "Please provide a meal name before adding ingredients."]
    ELSE IF LeZero(qty)
    THEN [meal_ingredients |-> draft, msg |-> "Quantity must be greater than zero."]
    ELSE IF bc_match(bc_load_ingredients(file), sel) = <<>>
    THEN [meal_ingredients |-> Append(draft, Row(NA, sel, qty, Zero, Zero, unit, NA, NaN)),
          msg |-> "Added"]
    ELSE [meal_ingredients |-> Append(draft, bc_entry(file, sel, qty, unit)),
          msg |-> "Added"]

\* render(), submitted: the draft and the message afterwards.
bc_submitted(draft, file, name, sel, qty, unit) ==
    IF Strip(name) = ""
    THEN [meal_ingredients |-> draft,
          msg |-> "Please provide a meal name before adding ingredients."]
    ELSE IF LeZero(qty)
    THEN [meal_ingredients |-> draft, msg |-> "Quantity must be greater than zero."]
    ELSE IF bc_match(bc_load_ingredients(file), sel) = <<>>
    THEN [meal_ingredients |-> draft, msg |-> "Ingredient not found."]
    ELSE [meal_ingredients |-> Append(draft, bc_entry(file, sel, qty, unit)),
          msg |-> "Added"]

\* render(), Save Meal: the rows of meals.csv afterwards.
bc_save_meal(mdf, draft, name) ==
    mdf \o [i \in 1..Len(draft) |-> [draft[i] EXCEPT !.Meal = Strip(name)]]

\* What the editor's widgets of a row show when the user has not touched them.
bc_default_qty(r, df) == bc_base_to_display(r.Quantity, bc_base_unit(df, r.Ingredient))[1]

bc_default_unit(r, df) ==
    LET base_unit_type == bc_base_unit(df, r.Ingredient)
        display_unit   == IF r.InputUnit \in {NA, "", None}
                          THEN bc_base_to_display(r.Quantity, base_unit_type)[2]
                          ELSE r.InputUnit
        unit_options   == bc_get_display_unit_options(base_unit_type)
    IN  IF \E k \in 1..Len(unit_options) : unit_options[k] = display_unit
        THEN display_unit
        ELSE unit_options[1]

\* bc_new_rows with the cost per unit as the line's total, whatever the quantity
bc_new_rows_FlatCost(editing_df, df, wq, wu) ==
    [i \in 1..Len(editing_df) |->
        LET r            == editing_df[i]
            qty_base_new == bc_display_to_base(wq[i], wu[i], bc_base_unit(df, r.Ingredient))
        IN  Row(NA, r.Ingredient, qty_base_new, r.CostPerUnit,
                Round6(r.CostPerUnit), wu[i], NA, NaN)]

\* render(), the loop over the editor's rows: new_rows.  Every row is
\* appended, whether or not its Remove button was pressed.
bc_new_rows(editing_df, df, wq, wu) ==
    [i \in 1..Len(editing_df) |->
        LET r            == editing_df[i]
            qty_base_new == bc_display_to_base(wq[i], wu[i], bc_base_unit(df, r.Ingredient))
        IN  Row(NA, r.Ingredient, qty_base_new, r.CostPerUnit,
                Round6(RMul(qty_base_new, r.CostPerUnit)), wu[i], NA, NaN)]

\* render(), Save Changes: the name the meal is stored under.
bc_final_meal_name(mdf, meal, new_name) ==
    LET nm == IF Strip(new_name) = "" THEN meal ELSE Strip(new_name)
    IN  IF nm # meal /\ MealRows(mdf, nm) # <<>> THEN meal ELSE nm

\* render(), Save Changes: the rows of meals.csv afterwards.
bc_save_changes(mdf, new_rows, meal, new_name) ==
    IF new_rows = <<>>
    THEN mdf
    ELSE OtherRows(mdf, meal)
            \o [i \in 1..Len(new_rows) |->
                    [new_rows[i] EXCEPT !.Meal = bc_final_meal_name(mdf, meal, new_name)]]

-----------------------------------------------------------------------------
(* The dashboard: dashboard.py                                             *)

\* Nothing of the dashboard is on the screen.
NoDash == [shown |-> FALSE, Ingredients |-> <<>>]

Shown(costs) == [shown |-> TRUE, Ingredients |-> costs]

RECURSIVE groupby_sum_AllRows(_, _, _)
\* groupby_sum with every row added to every meal's sum
groupby_sum_AllRows(df, i, acc) ==
    IF i > Len(df)
    THEN acc
    ELSE groupby_sum_AllRows(df, i + 1,
            LET all == IF df[i].Meal \in DOMAIN acc THEN acc ELSE acc @@ (df[i].Meal :> Zero)
            IN  [m \in DOMAIN all |-> RAdd(all[m], df[i].TotalCost)])

RECURSIVE groupby_sum(_, _, _)
\* meals_df.groupby("Meal")["Total Cost"].sum(): one pass over the rows,
\* one running sum per meal.
groupby_sum(df, i, acc) ==
    IF i > Len(df)
    THEN acc
    ELSE groupby_sum(df, i + 1,
            IF df[i].Meal \in DOMAIN acc
            THEN [acc EXCEPT ![df[i].Meal] = RAdd(@, df[i].TotalCost)]
            ELSE acc @@ (df[i].Meal :> df[i].TotalCost))

\* The Ingredients column of the dashboard, by meal.
ingredient_costs(meals_df) == groupby_sum(meals_df, 1, <<>>)

-----------------------------------------------------------------------------
(* The costing table: render() of dashboard.py                             *)

\* A row of stored_total_summary.csv.
Summary(meal, ing, other, total, sell) ==
    [Meal |-> meal, Ingredients |-> ing, OtherCosts |-> other,
     TotalCost |-> total, SellPrice |-> sell]

\* load_stored_summary(): the rows of the file; title-casing the column names
\* changes none of them.
load_stored_summary(file) == file

\* The meal names of the model in the order groupby("Meal") sorts them.
NameOrder == <<"A", "B">>

\* groupby("Meal")[...].sum().reset_index(): one row per meal, sorted by name.
cost_rows(costs) ==
    LET Has(m) == m \in DOMAIN costs
        keys   == SelectSeq(NameOrder, Has)
    IN  [i \in 1..Len(keys) |-> [Meal |-> keys[i], Ingredients |-> costs[keys[i]]]]

\* One row of ingredient_costs merged (how="left") with the rows
\* stored_summary holds for its meal; NaN where it holds none.
merge_row(c, stored_summary) ==
    LET found == MealRows(stored_summary, c.Meal)
    IN  IF found = <<>>
        THEN << [Meal |-> c.Meal, Ingredients |-> c.Ingredients,
                 OtherCosts |-> NaN, SellPrice |-> NaN] >>
        ELSE [j \in 1..Len(found) |->
                [Meal |-> c.Meal, Ingredients |-> c.Ingredients,
                 OtherCosts |-> found[j].OtherCosts, SellPrice |-> found[j].SellPrice]]

RECURSIVE merge_left(_, _, _)
\* ingredient_costs.merge(stored_summary[["Meal","Other Costs","Sell Price"]],
\*                        on="Meal", how="left")
merge_left(left, stored_summary, i) ==
    IF i > Len(left) THEN <<>>
    ELSE merge_row(left[i], stored_summary) \o merge_left(left, stored_summary, i + 1)

\* The two fillna calls on a merged row.
fillna(r) ==
    LET other == IF r.OtherCosts = NaN THEN Zero ELSE r.OtherCosts
        sell  == IF r.SellPrice = NaN THEN RAdd(r.Ingredients, other) ELSE r.SellPrice
    IN  [r EXCEPT !.OtherCosts = other, !.SellPrice = sell]

\* (profit / sell * 100) if sell else 0.0
margin_pct(profit, sell) ==
    IF IsZero(sell) THEN Zero ELSE RMulInt(RQuot(profit, sell), Hundred)

\* the derived columns with the profit taken over the ingredient cost alone
derived_NoOther(r) ==
    LET total  == RAdd(r.Ingredients, r.OtherCosts)
        profit == RSub(r.SellPrice, r.Ingredients)
    IN  [Meal |-> r.Meal, Ingredients |-> r.Ingredients, OtherCosts |-> r.OtherCosts,
         SellPrice |-> r.SellPrice, TotalCost |-> total, ProfitMargin |-> profit,
         MarginPct |-> margin_pct(profit, r.SellPrice)]

\* Total Cost, Profit Margin and Margin % of one row.
derived(r) ==
    LET total  == RAdd(r.Ingredients, r.OtherCosts)
        profit == RSub(r.SellPrice, total)
    IN  [Meal |-> r.Meal, Ingredients |-> r.Ingredients, OtherCosts |-> r.OtherCosts,
         SellPrice |-> r.SellPrice, TotalCost |-> total, ProfitMargin |-> profit,
         MarginPct |-> margin_pct(profit, r.SellPrice)]

\* merged, with its derived columns
merged_table(meals_df, stored_summary) ==
    LET m == merge_left(cost_rows(ingredient_costs(meals_df)), stored_summary, 1)
    IN  [i \in 1..Len(m) |-> derived(fillna(m[i]))]

\* The cells the user has typed into the data editor: per row of the table,
\* the Other Costs and the Sell Price typed, NaN for a cell left alone.
NoCell == [OtherCosts |-> NaN, SellPrice |-> NaN]

no_edits(table) == [i \in 1..Len(table) |-> NoCell]

\* st.data_editor(editable, key="costing_editor"): the typed cells laid over
\* the four editable columns, then the derived columns computed again.
edited_table(merged, cells) ==
    [i \in 1..Len(merged) |->
        derived([Meal |-> merged[i].Meal,
                 Ingredients |-> merged[i].Ingredients,
                 OtherCosts |-> IF i \in DOMAIN cells /\ cells[i].OtherCosts # NaN
                                THEN cells[i].OtherCosts ELSE merged[i].OtherCosts,
                 SellPrice |-> IF i \in DOMAIN cells /\ cells[i].SellPrice # NaN
                               THEN cells[i].SellPrice ELSE merged[i].SellPrice])]

RECURSIVE column_sum(_, _, _)
\* df[col].sum()
column_sum(df, col, i) ==
    IF i > Len(df) THEN Zero ELSE RAdd(df[i][col], column_sum(df, col, i + 1))

\* (total_profit / total_sell * 100) if total_sell else 0.0
overall_margin(display_df) ==
    margin_pct(column_sum(display_df, "ProfitMargin", 1), column_sum(display_df, "SellPrice", 1))

\* Nothing of the costing table is on the screen.
NoCosting ==
    [shown |-> FALSE, merged |-> <<>>, cells |-> <<>>, display_df |-> <<>>,
     overall_pct |-> Zero]

\* One run of render() over meals.csv, the stored summary and the typed cells.
costing_run(meals_df, stored_summary, cells) ==
    LET merged  == merged_table(meals_df, stored_summary)
        kept    == IF Len(cells) = Len(merged) THEN cells ELSE no_edits(merged)
        display == edited_table(merged, kept)
    IN  [shown |-> TRUE, merged |-> merged, cells |-> kept, display_df |-> display,
         overall_pct |-> overall_margin(display)]

\* final_df of Save Costing Summary
final_df(display_df) ==
    [i \in 1..Len(display_df) |->
        Summary(display_df[i].Meal, display_df[i].Ingredients, display_df[i].OtherCosts,
                display_df[i].TotalCost, display_df[i].SellPrice)]

-----------------------------------------------------------------------------
(* The single-file app: app.py                                             *)

\* x / y of two pandas columns: inf, -inf or NaN where y is 0
series_div(x, y) ==
    IF ~IsZero(y) THEN RQuot(x, y)
    ELSE IF IsZero(x) THEN NaN
    ELSE IF IsNeg(x) THEN NegInf ELSE PosInf

\* x * 100 of a pandas column
series_pct(x) == IF x.d = 0 THEN x ELSE RMulInt(x, Hundred)

\* tab1: the stored summary with Profit Margin and Margin % added.
tab1_table(df) ==
    [i \in 1..Len(df) |->
        LET profit == RSub(df[i].SellPrice, df[i].TotalCost)
        IN  [Meal |-> df[i].Meal, Ingredients |-> df[i].Ingredients,
             OtherCosts |-> df[i].OtherCosts, TotalCost |-> df[i].TotalCost,
             SellPrice |-> df[i].SellPrice, ProfitMargin |-> profit,
             MarginPct |-> series_pct(series_div(profit, df[i].SellPrice))]]

\* tab2: round(Cost / Purchase Size, 4), None when the size is 0
live_cost_per_unit(size, cost) ==
    IF IsZero(size) THEN NaN ELSE Round4(RDiv(cost, size))

\* A row of the meal's ingredient editor of tab3.
Assigned(ing, qty) == [Ingredient |-> ing, Quantity |-> qty]

RECURSIVE ingredient_total(_, _, _)
\* the loop of calculate_ingredient_cost: rows without a match in
\* ingredients_df, or with no number for the cost per unit, add nothing
ingredient_total(ings, rows, i) ==
    IF i > Len(rows) THEN Zero
    ELSE LET Is(g) == g.Ingredient = rows[i].Ingredient
             match == SelectSeq(ings, Is)
             rest  == ingredient_total(ings, rows, i + 1)
         IN  IF match = <<>> \/ match[1].CostPerUnit = NaN
             THEN rest
             ELSE RAdd(RMul(match[1].CostPerUnit, rows[i].Quantity), rest)

calculate_ingredient_cost(ings, rows) == Round2(ingredient_total(ings, rows, 1))

\* A row of business_costs.csv.
BusinessCost(name, type, amount, unit) ==
    [Name |-> name, Type |-> type, Amount |-> amount, Unit |-> unit]

\* business_cost = round(business_df["Amount"].sum(), 2)
business_cost(business_df) ==
    Round2(column_sum(business_df, "Amount", 1))

\* Nothing of app.py is on the screen.
NoApp ==
    [shown |-> FALSE, tab1 |-> <<>>, business_df |-> <<>>,
     ingredient_cost |-> Zero, business_cost |-> Zero, total_cost |-> Zero]

\* One run of app.py to its end: the table of tab1 and the three costs tab3
\* prints, computed from the copies the run took of the session's frames.
app_run(total, ings, business_df, rows) ==
    LET ic == calculate_ingredient_cost(ings, rows)
        bc == business_cost(business_df)
    IN  [shown |-> TRUE, tab1 |-> tab1_table(total), business_df |-> business_df,
         ingredient_cost |-> ic, business_cost |-> bc, total_cost |-> Round2(RAdd(ic, bc))]

\* Save Meal of tab3: one row appended to total_df.
app_save_meal(total, name, costs, sell_price) ==
    Append(total, Summary(name, costs.ingredient_cost, costs.business_cost,
                          costs.total_cost, sell_price))

\* Save Ingredients of tab2: the saved rows, then the new ones, each with its
\* live cost per unit.
app_save_ingredients(saved, new) ==
    LET combined == saved \o new
    IN  [i \in 1..Len(combined) |->
            [combined[i] EXCEPT
                !.CostPerUnit = live_cost_per_unit(combined[i].PurchaseSize, combined[i].Cost)]]

-----------------------------------------------------------------------------
(* The Ingredients tab: render() of ingredients.py                         *)

\* What the user types into the Add Ingredient form: name, unit type,
\* purchase size, cost.
IngInputs ==
    { <<" flour ", "KG", RInt(10), RInt(20)>>,
      <<"Milk", "L", RInt(3), RInt(1)>>,
      <<"Egg", "Unit", Zero, RInt(5)>>,
      <<" ", "KG", RInt(1), RInt(1)>> }

MaxIngs == 2

MaxPending == 1

\* What a run of the Ingredients tab leaves alone.
IngFrame ==
    /\ UNCHANGED <<page, meals, meal_name, meal_ingredients, editing_meal, edit_df>>
    /\ UNCHANGED convVars
    /\ UNCHANGED authVars
    /\ msg' = ""
    /\ dash' = NoDash
    /\ costing' = NoCosting
    /\ UNCHANGED appVars

\* render() of ingredients.py with no button pressed: it loads the master list.
IngRender ==
    /\ \E get_ok \in BOOLEAN :
          ingredients' = IngLoadFile(get_ok, ingredients, gh_ingredients)
    /\ UNCHANGED <<gh_ingredients, pending_ings>>
    /\ IngFrame

\* render() with the Add Ingredient form submitted.
IngAdd ==
    /\ Len(pending_ings) < MaxPending
    /\ \E in \in IngInputs, get_ok \in BOOLEAN :
          /\ ingredients' = IngLoadFile(get_ok, ingredients, gh_ingredients)
          /\ IF StripTitle(in[1]) = ""
             THEN pending_ings' = pending_ings
             ELSE pending_ings' =
                    Append(pending_ings,
                           Ingredient(StripTitle(in[1]), in[2], in[3], in[4],
                                      form_cost_per_unit(in[3], in[4])))
    /\ UNCHANGED gh_ingredients
    /\ IngFrame

\* Save Ingredients: _final_save_callback, then the rerun of render().
IngSave ==
    /\ pending_ings # <<>>
    /\ \E get1 \in BOOLEAN, put_ok \in BOOLEAN, get2 \in BOOLEAN :
          LET df_master == IngLoad(get1, ingredients, gh_ingredients)
              out       == df_master \o pending_ings
              remote2   == Commit(put_ok, out, gh_ingredients)
          IN  /\ Len(out) <= MaxIngs
              /\ gh_ingredients' = remote2
              /\ ingredients' = IngLoadFile(get2, out, remote2)
    /\ pending_ings' = <<>>
    /\ IngFrame

-----------------------------------------------------------------------------
(* The Meals tab: what the user can enter                                  *)

SeqToSet(s) == {s[i] : i \in 1..Len(s)}

MealNames == {"A", "B"}

\* Meal Name as typed
NameInputs == {"A "}

\* Meal Name as typed into the editor's rename box ("" : cleared)
RenameInputs == {"", "B"}

\* Qty as typed into an add form
QtyInputs == {Zero, RInt(500)}

\* Qty as typed over the value a row of the editor shows
EditQtyInputs == {Frac(1, 2)}

\* The same with the least value the widget takes (min_value=0.0)
EditQtyFrom0 == EditQtyInputs \cup {Zero}

\* Sell Price as typed
PriceInputs == {RInt(10)}

MaxDraft == 2

MaxEdit == 2

MaxMealRows == 2

\* The ingredients as the module serving the page loads them.
Catalog(p, file) ==
    IF p = "meal_builder" THEN load_ingredients(file) ELSE bc_load_ingredients(file)

\* What the Ingredient selectbox can hold: one of the options, None without options.
Selections(p, file) ==
    IF file = <<>> THEN {None} ELSE Options(Catalog(p, file))

\* What the Unit selectbox can hold.  Inside a form the options follow the
\* ingredient of the previous run, so the unit need not be one of the units
\* of the ingredient submitted with it.
UnitChoices(p, file) ==
    IF file = <<>>
    THEN SeqToSet(UnitOptions(p, IF p = "meal_builder" THEN "unit" ELSE ""))
    ELSE UNION {SeqToSet(UnitOptions(p, Catalog(p, file)[i].UnitType)) : i \in 1..Len(file)}

\* What a run of the Meals tab leaves alone.
MealFrame ==
    /\ UNCHANGED page
    /\ UNCHANGED convVars
    /\ UNCHANGED authVars
    /\ UNCHANGED ingVars
    /\ dash' = NoDash
    /\ costing' = NoCosting
    /\ UNCHANGED appVars

NoEdits == [m \in MealNames |-> NoEdit]

\* The add form of the new meal, of the module serving the page.
AddOutcome(p, draft, file, name, sel, qty, unit) ==
    IF p = "meal_builder"
    THEN mb_add_clicked(draft, file, name, sel, qty, unit)
    ELSE bc_submitted(draft, file, name, sel, qty, unit)

-----------------------------------------------------------------------------
(* The Meals tab: render() of meal_builder.py                              *)

\* The rows of the editor up to row k are drawn: unit_opts.index(Input Unit)
\* raises for a unit that is not an option of the row's unit type, and the
\* run ends there.
mb_rows_drawn(df_edit, k) ==
    \A i \in 1..k : df_edit[i].InputUnit \in SeqToSet(get_display_unit_options(df_edit[i].UnitType))

\* The values the quantity widgets of the editor can hold, row by row.
mb_qty_widgets(df_edit, typed) ==
    {wq \in [1..Len(df_edit) ->
                typed \cup {mb_default_qty(df_edit[i]) : i \in 1..Len(df_edit)}] :
        \A i \in 1..Len(df_edit) : wq[i] \in typed \cup {mb_default_qty(df_edit[i])}}

\* The values the unit widgets of the editor can hold, row by row.
mb_unit_widgets(df_edit) ==
    {wu \in [1..Len(df_edit) -> {"kg", "g", "L", "ml", "unit"}] :
        \A i \in 1..Len(df_edit) :
            wu[i] \in SeqToSet(get_display_unit_options(df_edit[i].UnitType))}

\* The new-meal form submitted with Add Ingredient.
MB_AddClicked ==
    /\ page = "meal_builder"
    /\ \E name \in NameInputs, sel \in Selections(page, ingredients),
          qty \in QtyInputs, unit \in UnitChoices(page, ingredients) :
          LET r == mb_add_clicked(meal_ingredients, ingredients, name, sel, qty, unit)
          IN  /\ Len(r.meal_ingredients) <= MaxDraft
              /\ meal_ingredients' = r.meal_ingredients
              /\ msg' = r.msg
    /\ UNCHANGED <<meals, meal_name, editing_meal, edit_df>>
    /\ MealFrame

\* The new-meal form submitted with Save Meal.
MB_SaveClicked ==
    /\ page = "meal_builder"
    /\ \E name \in NameInputs, price \in PriceInputs :
          LET r == mb_save_clicked(meals, meal_ingredients, name, price)
          IN  /\ Len(r.meals) <= MaxMealRows
              /\ meals' = r.meals
              /\ meal_ingredients' = r.meal_ingredients
              /\ msg' = r.msg
    /\ UNCHANGED <<meal_name, editing_meal, edit_df>>
    /\ MealFrame

\* The edit button of a saved meal.  The rows session state keeps for a meal
\* that is not in the editor are never read before this button overwrites
\* them, so the model keeps rows for the meal in the editor only.
MB_EditClicked ==
    /\ page = "meal_builder"
    /\ \E mn \in MealsOf(meals) :
          /\ edit_df' = [NoEdits EXCEPT ![mn] = Editing(MealRows(meals, mn))]
          /\ editing_meal' = mn
    /\ msg' = ""
    /\ UNCHANGED <<meals, meal_name, meal_ingredients>>
    /\ MealFrame

\* Delete Meal in the editor.
MB_DeleteClicked ==
    /\ page = "meal_builder"
    /\ editing_meal # None
    /\ meals' = OtherRows(meals, editing_meal)
    /\ editing_meal' = None
    /\ edit_df' = NoEdits
    /\ msg' = "Deleted"
    /\ UNCHANGED <<meal_name, meal_ingredients>>
    /\ MealFrame

\* Remove on a row of the editor.
MB_RemoveClicked ==
    /\ page = "meal_builder"
    /\ editing_meal # None
    /\ MealRows(meals, editing_meal) # <<>>
    /\ \E idx \in 1..Len(edit_df[editing_meal].rows) :
          /\ mb_rows_drawn(edit_df[editing_meal].rows, idx)
          /\ edit_df' = [edit_df EXCEPT ![editing_meal] =
                            Editing(DropAt(edit_df[editing_meal].rows, idx))]
    /\ msg' = ""
    /\ UNCHANGED <<meals, meal_name, meal_ingredients, editing_meal>>
    /\ MealFrame

\* The Add Ingredient form of the editor.
MB_EditAddClicked ==
    /\ page = "meal_builder"
    /\ editing_meal # None
    /\ MealRows(meals, editing_meal) # <<>>
    /\ mb_rows_drawn(edit_df[editing_meal].rows, Len(edit_df[editing_meal].rows))
    /\ \E sel \in Selections(page, ingredients), qty \in QtyInputs,
          unit \in UnitChoices(page, ingredients) :
          LET r == mb_edit_add_clicked(edit_df[editing_meal].rows, ingredients, sel, qty, unit)
          IN  /\ Len(r.edit) <= MaxEdit
              /\ edit_df' = [edit_df EXCEPT ![editing_meal] = Editing(r.edit)]
              /\ msg' = r.msg
    /\ UNCHANGED <<meals, meal_name, meal_ingredients, editing_meal>>
    /\ MealFrame

\* Save Changes in the editor, the quantities typed drawn from typed.
mb_save_changes_run(typed) ==
    /\ page = "meal_builder"
    /\ editing_meal # None
    /\ MealRows(meals, editing_meal) # <<>>
    /\ mb_rows_drawn(edit_df[editing_meal].rows, Len(edit_df[editing_meal].rows))
    /\ \E wq \in mb_qty_widgets(edit_df[editing_meal].rows, typed),
          wu \in mb_unit_widgets(edit_df[editing_meal].rows),
          rename \in RenameInputs, pr \in PriceInputs :
          /\ meals' = save_edit_meal(meals, edit_df[editing_meal].rows, editing_meal,
                                     wq, wu, rename, pr)
          /\ Len(meals') <= MaxMealRows
    /\ editing_meal' = None
    /\ edit_df' = NoEdits
    /\ msg' = "Saved"
    /\ UNCHANGED <<meal_name, meal_ingredients>>
    /\ MealFrame

MB_SaveChanges == mb_save_changes_run(EditQtyInputs)

MB_SaveChangesFrom0 == mb_save_changes_run(EditQtyFrom0)

-----------------------------------------------------------------------------
(* The Meals tab: render() of business_costs.py                            *)

\* The values the quantity widgets of the editor can hold, row by row.
bc_qty_widgets(editing_df, df, typed) ==
    {wq \in [1..Len(editing_df) ->
                typed \cup {bc_default_qty(editing_df[i], df) : i \in 1..Len(editing_df)}] :
        \A i \in 1..Len(editing_df) :
            wq[i] \in typed \cup {bc_default_qty(editing_df[i], df)}}

\* The values the unit widgets of the editor can hold, row by row.
bc_unit_widgets(editing_df, df) ==
    {wu \in [1..Len(editing_df) -> {"kg", "g", "L", "ml", "unit", ""}] :
        \A i \in 1..Len(editing_df) :
            wu[i] \in SeqToSet(bc_get_display_unit_options(
                                   bc_base_unit(df, editing_df[i].Ingredient)))}

\* The new-meal form submitted (Add Ingredient to Meal).
BC_Submitted ==
    /\ page = "business_costs"
    /\ \E name \in NameInputs, sel \in Selections(page, ingredients),
          qty \in QtyInputs, unit \in UnitChoices(page, ingredients) :
          LET r == bc_submitted(meal_ingredients, ingredients, name, sel, qty, unit)
          IN  /\ Len(r.meal_ingredients) <= MaxDraft
              /\ meal_name' = name
              /\ meal_ingredients' = r.meal_ingredients
              /\ msg' = r.msg
    /\ UNCHANGED <<meals, editing_meal, edit_df>>
    /\ MealFrame

\* Save Meal, shown while the draft has rows.  After the file is written the
\* handler assigns st.session_state.meal_name, the key of a widget this run
\* has already drawn; where Streamlit refuses that (reset_ok false) the
\* except clause reports it and the draft is not reset.
BC_SaveMeal ==
    /\ page = "business_costs"
    /\ meal_ingredients # <<>>
    /\ IF Strip(meal_name) = ""
       THEN /\ msg' = "Meal name is required."
            /\ UNCHANGED <<meals, meal_name, meal_ingredients>>
       ELSE /\ meals' = bc_save_meal(meals, meal_ingredients, meal_name)
            /\ Len(meals') <= MaxMealRows
            /\ \E reset_ok \in BOOLEAN :
                  IF reset_ok
                  THEN /\ meal_name' = ""
                       /\ meal_ingredients' = <<>>
                       /\ msg' = "Meal saved!"
                  ELSE /\ UNCHANGED <<meal_name, meal_ingredients>>
                       /\ msg' = "Failed to save meal"
    /\ UNCHANGED <<editing_meal, edit_df>>
    /\ MealFrame

\* The Edit button of a saved meal; the editor then loads its working copy
\* unless session state still holds one.
BC_EditClicked ==
    /\ page = "business_costs"
    /\ \E meal \in MealsOf(meals) :
          /\ editing_meal' = meal
          /\ edit_df' = IF edit_df[meal].loaded
                        THEN edit_df
                        ELSE [edit_df EXCEPT ![meal] = Editing(MealRows(meals, meal))]
    /\ msg' = ""
    /\ UNCHANGED <<meals, meal_name, meal_ingredients>>
    /\ MealFrame

\* Delete Meal in the editor.
BC_DeleteMeal ==
    /\ page = "business_costs"
    /\ editing_meal # None
    /\ meals' = OtherRows(meals, editing_meal)
    /\ edit_df' = [edit_df EXCEPT ![editing_meal] = NoEdit]
    /\ editing_meal' = None
    /\ msg' = "Deleted"
    /\ UNCHANGED <<meal_name, meal_ingredients>>
    /\ MealFrame

\* Remove on a row of the editor: the index goes into remove_indices, a list
\* of this run that nothing reads.
BC_Remove ==
    /\ page = "business_costs"
    /\ editing_meal # None
    /\ \E idx \in 1..Len(edit_df[editing_meal].rows) : msg' = "Marked for removal"
    /\ UNCHANGED <<meals, meal_name, meal_ingredients, editing_meal, edit_df>>
    /\ MealFrame

\* Add Ingredient in the editor: the row goes into new_rows, a list of this
\* run, and Save Changes was not pressed in this run.
BC_EditAdd ==
    /\ page = "business_costs"
    /\ editing_meal # None
    /\ \E sel \in Selections(page, ingredients), qty \in QtyInputs :
          msg' = IF LeZero(qty) THEN "Quantity must be >0 to add."
                 ELSE IF bc_match(bc_load_ingredients(ingredients), sel) = <<>>
                 THEN "Ingredient not found."
                 ELSE "Added"
    /\ UNCHANGED <<meals, meal_name, meal_ingredients, editing_meal, edit_df>>
    /\ MealFrame

\* Save Changes in the editor.  After a rename the editor stays open on the
\* new name and the next run loads its working copy.  The quantities typed
\* are drawn from typed.
bc_save_changes_run(typed) ==
    /\ page = "business_costs"
    /\ editing_meal # None
    /\ LET meal_      == editing_meal
           editing_df == edit_df[meal_].rows
           df         == bc_load_ingredients(ingredients)
       IN  \E wq \in bc_qty_widgets(editing_df, df, typed), wu \in bc_unit_widgets(editing_df, df),
              new_name \in RenameInputs :
              LET new_rows == bc_new_rows(editing_df, df, wq, wu)
                  final    == bc_final_meal_name(meals, meal_, new_name)
              IN  IF new_rows = <<>>
                  THEN /\ msg' = "Meal must have at least one ingredient. Aborting save."
                       /\ UNCHANGED <<meals, editing_meal, edit_df>>
                  ELSE /\ meals' = bc_save_changes(meals, new_rows, meal_, new_name)
                       /\ Len(meals') <= MaxMealRows
                       /\ msg' = "Updated"
                       /\ IF final # meal_
                          THEN /\ editing_meal' = final
                               /\ edit_df' = [edit_df EXCEPT
                                                ![meal_] = NoEdit,
                                                ![final] = IF @.loaded THEN @
                                                           ELSE Editing(MealRows(meals', final))]
                          ELSE /\ editing_meal' = None
                               /\ edit_df' = [edit_df EXCEPT ![meal_] = NoEdit]
    /\ UNCHANGED <<meal_name, meal_ingredients>>
    /\ MealFrame

BC_SaveChanges == bc_save_changes_run(EditQtyInputs)

BC_SaveChangesFrom0 == bc_save_changes_run(EditQtyFrom0)

-----------------------------------------------------------------------------
(* The Dashboard tab: render() of dashboard.py                             *)

\* render() on a visit to the tab: nothing typed into the data editor yet.
DashRender ==
    /\ meals # <<>>
    /\ dash' = Shown(ingredient_costs(meals))
    /\ costing' = costing_run(meals, load_stored_summary(total_df), <<>>)
    /\ msg' = ""
    /\ UNCHANGED appVars
    /\ UNCHANGED <<page, meals, meal_name, meal_ingredients, editing_meal, edit_df>>
    /\ UNCHANGED convVars
    /\ UNCHANGED authVars
    /\ UNCHANGED ingVars

-----------------------------------------------------------------------------
(* The costing table of dashboard.py: the data editor and the save button  *)

\* What the user types into an Other Costs cell, and into a Sell Price cell.
OtherInputs == {Zero, RInt(13)}

SellInputs == {Zero, RInt(20)}

\* What a run of the dashboard leaves alone.
DashFrame ==
    /\ UNCHANGED <<page, meals, meal_name, meal_ingredients, editing_meal, edit_df>>
    /\ UNCHANGED convVars
    /\ UNCHANGED authVars
    /\ UNCHANGED ingVars
    /\ UNCHANGED <<ingredients_df, business_costs_df, app_screen>>
    /\ dash' = Shown(ingredient_costs(meals))
    /\ msg' = ""

\* render() after the user typed into one cell of the data editor.
DashEdit ==
    /\ costing.shown
    /\ meals # <<>>
    /\ \E i \in 1..Len(costing.display_df), col \in {"Other Costs", "Sell Price"} :
          \E v \in (IF col = "Other Costs" THEN OtherInputs ELSE SellInputs) :
             LET cells == [costing.cells EXCEPT
                              ![i] = IF col = "Other Costs"
                                     THEN [@ EXCEPT !.OtherCosts = v]
                                     ELSE [@ EXCEPT !.SellPrice = v]]
             IN  costing' = costing_run(meals, load_stored_summary(total_df), cells)
    /\ UNCHANGED total_df
    /\ DashFrame

\* render() with Save Costing Summary pressed: the table is drawn from the
\* summary loaded at the top of the run, then final_df is stored.
DashSave ==
    /\ costing.shown
    /\ meals # <<>>
    /\ LET run == costing_run(meals, load_stored_summary(total_df), costing.cells)
       IN  /\ costing' = run
           /\ total_df' = final_df(run.display_df)
    /\ DashFrame

-----------------------------------------------------------------------------
(* app.py                                                                  *)

\* Meal Name and Sell Price of tab3 (the Sell Price starts at 0.0).
AppNames == {"A", "B"}

AppSellInputs == {Zero, RInt(20)}

\* What the ingredient editor of tab3 holds: nothing, half a unit of Flour,
\* one unit of an ingredient tab2 never saved.
AppDrafts ==
    { <<>>,
      << Assigned("Flour", Frac(1, 2)) >>,
      << Assigned("Salt", RInt(1)) >> }

\* The rows typed into the New Ingredient Entry editor of tab2.
AppNewIngredients ==
    { << Ingredient("Flour", "KG", RInt(10), RInt(20), NaN) >>,
      << Ingredient("Milk", "L", RInt(3), RInt(1), NaN) >> }

\* What the business costs editor of tab4 holds when it is saved.
AppBusiness ==
    { <<>>,
      << BusinessCost("Labels", "Variable", RInt(13), "per meal") >>,
      << BusinessCost("Cartons", "Variable", RInt(240), "per carton") >> }

MaxAppIngs == 1

MaxSummary == 2

\* What a run of app.py leaves alone.
AppFrame ==
    /\ UNCHANGED page
    /\ UNCHANGED convVars
    /\ UNCHANGED authVars
    /\ UNCHANGED ingVars
    /\ UNCHANGED mealVars
    /\ UNCHANGED costing

\* A run with no button pressed.
AppRender ==
    /\ \E rows \in AppDrafts :
          app_screen' = app_run(total_df, ingredients_df, business_costs_df, rows)
    /\ UNCHANGED <<total_df, ingredients_df, business_costs_df>>
    /\ AppFrame

\* Save Ingredients of tab2, then the rerun.
AppSaveIngredients ==
    /\ Len(ingredients_df) < MaxAppIngs
    /\ \E new \in AppNewIngredients, rows \in AppDrafts :
          /\ ingredients_df' = app_save_ingredients(ingredients_df, new)
          /\ app_screen' = app_run(total_df, ingredients_df', business_costs_df, rows)
    /\ UNCHANGED <<total_df, business_costs_df>>
    /\ AppFrame

\* Save Meal of tab3, then the rerun over the emptied ingredient editor.
AppSaveMeal ==
    /\ Len(total_df) < MaxSummary
    /\ \E name \in AppNames, rows \in AppDrafts, sell_price \in AppSellInputs :
          LET costs == app_run(total_df, ingredients_df, business_costs_df, rows)
          IN  /\ total_df' = app_save_meal(total_df, name, costs, sell_price)
              /\ app_screen' = app_run(total_df', ingredients_df, business_costs_df, <<>>)
    /\ UNCHANGED <<ingredients_df, business_costs_df>>
    /\ AppFrame

\* Save Business Costs of tab4: tab3 was drawn, earlier in the same run, from
\* the frame as it was; nothing reruns.
AppSaveBusinessCosts ==
    /\ \E edited \in AppBusiness, rows \in AppDrafts :
          /\ business_costs_df' = edited
          /\ app_screen' = app_run(total_df, ingredients_df, business_costs_df, rows)
    /\ UNCHANGED <<total_df, ingredients_df>>
    /\ AppFrame

-----------------------------------------------------------------------------
(* The login gate: app.py, lines 9-33                                      *)

\* SESSION_TIMEOUT = 3600  # 1 hour
SESSION_TIMEOUT == 3600

\* st.secrets["general"]["access_password"]
password == "secret"

\* What can be typed into the Password box.
PasswordInputs == {"secret", "wrong", ""}

\* The instants time.time() is read at, in seconds: around one and two
\* timeouts after the first.
ClockInstants == {0, 1, 3600, 3601, 7201, 7202}

\* The gate with no expiry test: whoever logged in once stays in
auth_block_NoExpiry(keys, auth, lt, t, sub, pw) ==
    LET keys1 == keys \cup {"authenticated"}
        auth1 == IF "authenticated" \in keys THEN auth ELSE FALSE
    IN  IF ~auth1
        THEN IF sub /\ pw = password
             THEN [keys |-> keys1 \cup {"login_time"}, authenticated |-> TRUE,
                   login_time |-> t, out |-> "rerun", msg |-> ""]
             ELSE [keys |-> keys1, authenticated |-> auth1, login_time |-> lt, out |-> "form",
                   msg |-> IF sub THEN "Incorrect password" ELSE ""]
        ELSE [keys |-> keys1, authenticated |-> auth1, login_time |-> lt, out |-> "app",
              msg |-> ""]

\* One run of lines 9-33 over the session state (its keys, authenticated,
\* login_time), with time.time() = t, the form submitted or not (sub) and pw
\* in the Password box.  out is how the run leaves the gate: "rerun"
\* (st.rerun()), "form" (the login form, then st.stop()) or "app" (past the
\* gate, into the code below it).
auth_block(keys, auth, lt, t, sub, pw) ==
    LET keys1   == keys \cup {"authenticated"}
        auth1   == IF "authenticated" \in keys THEN auth ELSE FALSE
        expired == "login_time" \in keys /\ t - lt > SESSION_TIMEOUT
    IN  IF expired
        THEN [keys |-> keys1, authenticated |-> FALSE, login_time |-> lt, out |-> "rerun",
              msg |-> "Session expired. Please re-enter your password."]
        ELSE IF ~auth1
        THEN IF sub /\ pw = password
             THEN [keys |-> keys1 \cup {"login_time"}, authenticated |-> TRUE,
                   login_time |-> t, out |-> "rerun", msg |-> ""]
             ELSE [keys |-> keys1, authenticated |-> auth1, login_time |-> lt, out |-> "form",
                   msg |-> IF sub THEN "Incorrect password" ELSE ""]
        ELSE [keys |-> keys1, authenticated |-> auth1, login_time |-> lt, out |-> "app",
              msg |-> ""]

\* What the gate leaves alone.
AuthFrame ==
    /\ UNCHANGED page
    /\ UNCHANGED convVars
    /\ UNCHANGED ingVars
    /\ UNCHANGED mealVars
    /\ UNCHANGED costVars

\* Streamlit runs the script that is queued: lines 9-33.
AuthRun ==
    /\ auth_pc = "queued"
    /\ LET r == auth_block(session_keys, authenticated, login_time, now, submitted, input_pw)
       IN  /\ session_keys' = r.keys
           /\ authenticated' = r.authenticated
           /\ login_time' = r.login_time
           /\ auth_pc' = r.out
           /\ auth_msg' = r.msg
    /\ submitted' = FALSE
    /\ UNCHANGED <<now, input_pw>>
    /\ AuthFrame

\* st.rerun() has stopped the run: Streamlit queues the script again.
AuthRestart ==
    /\ auth_pc = "rerun"
    /\ auth_pc' = "queued"
    /\ UNCHANGED <<session_keys, authenticated, login_time, now, submitted, input_pw, auth_msg>>
    /\ AuthFrame

\* The user types a password into the login form and presses Enter.
AuthSubmit ==
    /\ auth_pc = "form"
    /\ \E pw \in PasswordInputs : input_pw' = pw
    /\ submitted' = TRUE
    /\ auth_pc' = "queued"
    /\ UNCHANGED <<session_keys, authenticated, login_time, now, auth_msg>>
    /\ AuthFrame

\* The user touches a widget of the app below the gate.
AuthInteract ==
    /\ auth_pc = "app"
    /\ auth_pc' = "queued"
    /\ UNCHANGED <<session_keys, authenticated, login_time, now, submitted, input_pw, auth_msg>>
    /\ AuthFrame

\* Time passes.
AuthTick ==
    /\ \E t \in ClockInstants : t > now /\ now' = t
    /\ UNCHANGED <<session_keys, authenticated, login_time, submitted, input_pw, auth_pc,
                   auth_msg>>
    /\ AuthFrame

-----------------------------------------------------------------------------
(* The conversions on their own: inputs drawn, one call made               *)

ConvQty ==
    {Zero, Frac(1, 2000), Frac(1, 2), Frac(999, 1000), RInt(1), Frac(3, 2), RInt(500), RInt(1500)}

ConvUnits == {"g", "G", "gram", "grams", "kg", "ml", "ML", "L", "unit", "", "oz", None}

ConvTypes == {"KG", "kg", "L", "l", "UNIT", "Unit", "BAG", "", None}

NoOut == <<>>

ConvInit ==
    /\ cv_pc = "in"
    /\ cv_qty \in ConvQty
    /\ cv_unit \in ConvUnits
    /\ cv_type \in ConvTypes
    /\ cv_out = NoOut

\* qty_base = display_to_base(qty, unit, type)
ConvToBase ==
    /\ cv_pc = "in"
    /\ cv_out' = <<ToBase(page, cv_qty, cv_unit, cv_type)>>
    /\ cv_pc' = "base"
    /\ UNCHANGED <<page, cv_qty, cv_unit, cv_type>>
    /\ UNCHANGED ingVars
    /\ UNCHANGED mealVars
    /\ UNCHANGED costVars
    /\ UNCHANGED authVars

\* (qty, unit) = base_to_display(qty_base, type)
ConvToDisplay ==
    /\ cv_pc = "in"
    /\ cv_out' = ToDisplay(page, cv_qty, cv_type)
    /\ cv_pc' = "display"
    /\ UNCHANGED <<page, cv_qty, cv_unit, cv_type>>
    /\ UNCHANGED ingVars
    /\ UNCHANGED mealVars
    /\ UNCHANGED costVars
    /\ UNCHANGED authVars

\* the pair returned by base_to_display fed back into display_to_base
ConvBack ==
    /\ cv_pc = "display"
    /\ cv_out' = <<ToBase(page, cv_out[1], cv_out[2], cv_type)>>
    /\ cv_pc' = "trip"
    /\ UNCHANGED <<page, cv_qty, cv_unit, cv_type>>
    /\ UNCHANGED ingVars
    /\ UNCHANGED mealVars
    /\ UNCHANGED costVars
    /\ UNCHANGED authVars

ConvNext == ConvToBase \/ ConvToDisplay \/ ConvBack

-----------------------------------------------------------------------------
(* Specifications                                                          *)

\* The conversion harness when it is not the subject.
ConvIdle ==
    /\ cv_pc = "idle"
    /\ cv_qty = Zero
    /\ cv_unit = None
    /\ cv_type = None
    /\ cv_out = NoOut

\* No ingredient file anywhere, nothing pending.
IngIdle ==
    /\ ingredients = <<>>
    /\ gh_ingredients = Absent
    /\ pending_ings = <<>>

\* A fresh deployment: no local file; GitHub has no file or an empty one.
IngInit ==
    /\ ingredients = <<>>
    /\ gh_ingredients \in {Absent, Remote(<<>>)}
    /\ pending_ings = <<>>

\* A fresh session on a fresh deployment: no meals.csv, the defaults of render().
MealInit ==
    /\ meals = <<>>
    /\ meal_name = ""
    /\ meal_ingredients = <<>>
    /\ editing_meal = None
    /\ edit_df = NoEdits
    /\ msg = ""
    /\ dash = NoDash

\* app.py never run: none of its three files, nothing on its screen, and the
\* costing table not drawn.
AppInit ==
    /\ costing = NoCosting
    /\ total_df = <<>>
    /\ ingredients_df = <<>>
    /\ business_costs_df = <<>>
    /\ app_screen = NoApp

\* The gate of app.py when it is not the subject: a session logged in at
\* instant 0, and the clock standing there.
AuthIdle ==
    /\ session_keys = {"authenticated", "login_time"}
    /\ authenticated = TRUE
    /\ login_time = 0
    /\ now = 0
    /\ submitted = FALSE
    /\ input_pw = password
    /\ auth_pc = "app"
    /\ auth_msg = ""

InitConv == page \in Pages /\ ConvInit /\ IngIdle /\ MealInit /\ AppInit /\ AuthIdle

SpecConv == InitConv /\ [][ConvNext]_vars

IngNext == IngRender \/ IngAdd \/ IngSave

InitIng == page = "meal_builder" /\ ConvIdle /\ IngInit /\ MealInit /\ AppInit /\ AuthIdle

SpecIng == InitIng /\ [][IngNext]_vars

MealNext ==
    \/ MB_AddClicked \/ MB_SaveClicked \/ MB_EditClicked \/ MB_DeleteClicked
    \/ MB_RemoveClicked \/ MB_EditAddClicked \/ MB_SaveChanges
    \/ BC_Submitted \/ BC_SaveMeal \/ BC_EditClicked \/ BC_DeleteMeal
    \/ BC_Remove \/ BC_EditAdd \/ BC_SaveChanges
    \/ DashRender

\* Ingredient files the Ingredients tab can have left behind while the commit
\* to GitHub failed: none, or one ingredient typed into its form.
MealCatalogs ==
    { <<>>,
      << Ingredient("Flour", "KG", RInt(10), RInt(20), RInt(2)) >>,
      << Ingredient("Milk", "L", RInt(3), RInt(1), Frac(1, 3)) >>,
      << Ingredient("Egg", "Unit", Zero, RInt(5), Zero) >> }

CatalogInit ==
    /\ ingredients \in MealCatalogs
    /\ gh_ingredients = Absent
    /\ pending_ings = <<>>

\* A meal of meal_builder.py saved from that file: 500 units of Egg.
EggMeal == << Row("A", "Egg", RInt(500), Zero, Zero, "unit", "UNIT", RInt(10)) >>

\* The Egg file saved and committed, and that meal stored.
SnapInit ==
    /\ ingredients = << Ingredient("Egg", "Unit", Zero, RInt(5), Zero) >>
    /\ gh_ingredients = Remote(ingredients)
    /\ pending_ings = <<>>
    /\ meals = EggMeal
    /\ meal_name = ""
    /\ meal_ingredients = <<>>
    /\ editing_meal = None
    /\ edit_df = NoEdits
    /\ msg = ""
    /\ dash = NoDash

InitMeal == page \in Pages /\ ConvIdle /\ CatalogInit /\ MealInit /\ AppInit /\ AuthIdle

SpecMeal == InitMeal /\ [][MealNext]_vars

\* The Ingredients tab and the editor of meal_builder.py, from a stored meal.
SnapNext ==
    \/ IngRender \/ IngAdd \/ IngSave
    \/ MB_EditClicked \/ MB_EditAddClicked \/ MB_SaveChanges

InitSnap == page = "meal_builder" /\ ConvIdle /\ SnapInit /\ AppInit /\ AuthIdle

SpecSnap == InitSnap /\ [][SnapNext]_vars


\* app.py on its own, from a fresh deployment.
AppNext == AppRender \/ AppSaveIngredients \/ AppSaveMeal \/ AppSaveBusinessCosts

InitApp == page = "meal_builder" /\ ConvIdle /\ IngIdle /\ MealInit /\ AppInit /\ AuthIdle

SpecApp == InitApp /\ [][AppNext]_vars

\* Meals of meal_builder.py stored from a file holding Flour at 2 per kg and
\* Milk at 1/3 per litre: 500 g of Flour in A, 6 L of Milk in B.
FlourLine == Row("A", "Flour", Frac(1, 2), RInt(2), RInt(1), "g", "KG", RInt(10))

MilkLine == Row("B", "Milk", RInt(6), Frac(1, 3), RInt(2), "L", "L", RInt(10))

DashMeals == { <<FlourLine>>, <<FlourLine, MilkLine>> }

\* stored_total_summary.csv as Save Meal of app.py can have left it: no file;
\* A saved at sell price 20 over 13 of business costs; A saved with nothing
\* entered.
DashSummaries ==
    { <<>>,
      << Summary("A", RInt(1), RInt(13), RInt(14), RInt(20)) >>,
      << Summary("A", Zero, Zero, Zero, Zero) >> }

DashInit ==
    /\ ingredients = << Ingredient("Flour", "KG", RInt(10), RInt(20), RInt(2)),
                        Ingredient("Milk", "L", RInt(3), RInt(1), Frac(1, 3)) >>
    /\ gh_ingredients = Absent
    /\ pending_ings = <<>>
    /\ meals \in DashMeals
    /\ meal_name = ""
    /\ meal_ingredients = <<>>
    /\ editing_meal = None
    /\ edit_df = NoEdits
    /\ msg = ""
    /\ dash = NoDash
    /\ costing = NoCosting
    /\ total_df \in DashSummaries
    /\ ingredients_df = <<>>
    /\ business_costs_df = <<>>
    /\ app_screen = NoApp

\* The costing dashboard over stored meals and a stored summary.
DashNext == DashRender \/ DashEdit \/ DashSave

InitDash == page = "meal_builder" /\ ConvIdle /\ DashInit /\ AuthIdle

SpecDash == InitDash /\ [][DashNext]_vars

\* Milk saved and committed; Flour saved while the commit failed, so that it
\* is in the local file only; a meal stored with each.
StaleInit ==
    /\ ingredients = << Ingredient("Milk", "L", RInt(3), RInt(1), Frac(1, 3)),
                        Ingredient("Flour", "KG", RInt(10), RInt(20), RInt(2)) >>
    /\ gh_ingredients = Remote(<< Ingredient("Milk", "L", RInt(3), RInt(1), Frac(1, 3)) >>)
    /\ pending_ings = <<>>
    /\ meals = <<FlourLine, MilkLine>>
    /\ meal_name = ""
    /\ meal_ingredients = <<>>
    /\ editing_meal = None
    /\ edit_df = NoEdits
    /\ msg = ""
    /\ dash = NoDash

\* The Ingredients tab, the dashboard and the Edit button over those files.
StaleNext == IngRender \/ IngAdd \/ IngSave \/ DashRender \/ MB_EditClicked

InitStale == page = "meal_builder" /\ ConvIdle /\ StaleInit /\ AppInit /\ AuthIdle

SpecStale == InitStale /\ [][StaleNext]_vars

\* The ingredient file behind the stored meals of the editors: one ingredient
\* of each unit type.
EditCatalog ==
    << Ingredient("Flour", "KG", RInt(10), RInt(20), RInt(2)),
       Ingredient("Milk", "L", RInt(3), RInt(1), Frac(1, 3)),
       Ingredient("Egg", "Unit", RInt(12), RInt(6), Frac(1, 2)) >>

\* What was entered for a stored line: ingredient, quantity, unit.
EditEntries ==
    { <<"Flour", Frac(1, 2), "kg">>, <<"Flour", RInt(1500), "g">>,
      <<"Flour", RInt(500), "g">>, <<"Milk", RInt(6), "L">>, <<"Egg", RInt(3), "unit">> }

\* The line the add form of page p builds from an entry.
EditLine(p, e) ==
    IF p = "meal_builder"
    THEN mb_entry(EditCatalog, e[1], e[2], e[3])
    ELSE bc_entry(EditCatalog, e[1], e[2], e[3])

\* meals.csv after Save Meal of page p on the draft under the name.
EditStored(p, mdf, draft, name) ==
    IF p = "meal_builder"
    THEN save_new_meal(mdf, draft, name, RInt(10))
    ELSE bc_save_meal(mdf, draft, name)

\* meals.csv as page p can have left it: one meal A of one line; or A of two
\* lines saved before B.
EditMeals(p) ==
    { EditStored(p, <<>>, <<EditLine(p, e)>>, "A") : e \in EditEntries }
        \cup { EditStored(p,
                   EditStored(p, <<>>, <<EditLine(p, <<"Flour", RInt(500), "g">>),
                                          EditLine(p, <<"Egg", RInt(3), "unit">>)>>, "A"),
                   <<EditLine(p, <<"Milk", RInt(6), "L">>)>>, "B") }

EditInit ==
    /\ ingredients = EditCatalog
    /\ gh_ingredients = Remote(EditCatalog)
    /\ pending_ings = <<>>
    /\ meals \in EditMeals(page)
    /\ meal_name = ""
    /\ meal_ingredients = <<>>
    /\ editing_meal = None
    /\ edit_df = NoEdits
    /\ msg = ""
    /\ dash = NoDash

\* The editors of both pages over stored meals, the quantity widgets taking
\* every value from 0 up.
EditNext ==
    \/ MB_EditClicked \/ MB_RemoveClicked \/ MB_SaveChangesFrom0 \/ MB_DeleteClicked
    \/ BC_EditClicked \/ BC_Remove \/ BC_SaveChangesFrom0 \/ BC_DeleteMeal

InitEdit == page \in Pages /\ ConvIdle /\ EditInit /\ AppInit /\ AuthIdle

SpecEdit == InitEdit /\ [][EditNext]_vars

\* A new session: st.session_state is empty and the first run is due.
AuthInit ==
    /\ session_keys = {}
    /\ authenticated = FALSE
    /\ login_time = 0
    /\ now \in {0, 1}
    /\ submitted = FALSE
    /\ input_pw = ""
    /\ auth_pc = "queued"
    /\ auth_msg = ""

\* The login gate of app.py on its own.
AuthNext == AuthRun \/ AuthRestart \/ AuthSubmit \/ AuthInteract \/ AuthTick

InitAuth ==
    page = "meal_builder" /\ ConvIdle /\ IngIdle /\ MealInit /\ AppInit /\ AuthInit

SpecAuth == InitAuth /\ [][AuthNext]_vars

\* The same, with Streamlit running every script it has queued.
SpecAuthLive == SpecAuth /\ WF_vars(AuthRun) /\ WF_vars(AuthRestart)
-----------------------------------------------------------------------------
(* Claims                                                                  *)

\* The type and unit strings as the claims name them, whatever their case.
KgTypes == {"KG", "kg", "Kg"}

LitreTypes == {"L", "l"}

CountTypes == {"UNIT", "Unit", "unit"}

GramUnits == {"g", "G", "gram", "Gram", "grams", "GRAMS"}

MlUnits == {"ml", "ML"}

\* C1: display_to_base(qty, unit, type) is qty/1000 for a kilogram type with
\* a unit among g, gram, grams and for a litre type with unit ml, and is qty
\* unchanged in every other case: another unit string, a missing one (None or
\* empty), the count type and any unrecognized type.  Strings are matched
\* whatever their case, as the code normalises them.  In both modules.
C1_ToBaseIsReference ==
    cv_pc = "base" =>
        LET scaled == \/ (cv_type \in KgTypes /\ cv_unit \in GramUnits)
                      \/ (cv_type \in LitreTypes /\ cv_unit \in MlUnits)
        IN  /\ Len(cv_out) = 1
            /\ scaled => RMulInt(cv_out[1], Thousand) = cv_qty
            /\ ~scaled => cv_out[1] = cv_qty

\* 500 "gram" of a KG ingredient is 1/2 kg.
C1_Witness ==
    /\ cv_pc = "base" /\ cv_type = "KG" /\ cv_unit = "gram"
    /\ cv_qty = RInt(500) /\ cv_out = <<Frac(1, 2)>>

\* C2: base_to_display(q, type) is (q*1000, "g") for a kilogram type and
\* q < 1, (q, "kg") for a kilogram type and q >= 1, (q*1000, "ml") and
\* (q, "L") by the same threshold for a litre type, and (q, "unit") for the
\* count type, for every q.  In both modules.
C2_ToDisplayIsReference ==
    cv_pc = "display" =>
        LET below == cv_qty.w = 0
            \* cv_out is (q*1000, label)
            Times(label) == /\ Len(cv_out) = 2
                            /\ RDivInt(cv_out[1], Thousand) = cv_qty
                            /\ cv_out[2] = label
        IN  /\ cv_type \in KgTypes /\ below => Times("g")
            /\ cv_type \in KgTypes /\ ~below => cv_out = <<cv_qty, "kg">>
            /\ cv_type \in LitreTypes /\ below => Times("ml")
            /\ cv_type \in LitreTypes /\ ~below => cv_out = <<cv_qty, "L">>
            /\ cv_type \in CountTypes => cv_out = <<cv_qty, "unit">>

\* Exactly 1 kg is shown as (1, "kg").
C2_Witness ==
    /\ cv_pc = "display" /\ cv_type = "KG" /\ cv_qty = RInt(1)
    /\ cv_out = <<RInt(1), "kg">>

\* C3: for every q > 0 and every base unit type, base_to_display followed by
\* display_to_base on the returned quantity and label gives q again.
C3_RoundTrip ==
    cv_pc = "trip" /\ ~LeZero(cv_qty) => cv_out = <<cv_qty>>

\* 1/2 L goes out as 500 ml and comes back as 1/2.
C3_Witness ==
    /\ cv_pc = "trip" /\ cv_type = "L" /\ cv_qty = Frac(1, 2)
    /\ cv_out = <<Frac(1, 2)>>


\* C4: every ingredient row the program holds (saved or draft) has Cost Per
\* Unit = Cost / Purchase Size when Purchase Size is not 0 and exactly 0
\* when it is 0, whichever path derived it.
C4_CostPerUnitGuarded ==
    \A rows \in {ingredients, pending_ings} :
        \A i \in 1..Len(rows) :
            IF IsZero(rows[i].PurchaseSize)
            THEN rows[i].CostPerUnit = Zero
            ELSE RMul(rows[i].CostPerUnit, rows[i].PurchaseSize) = rows[i].Cost


\* The messages of a rejected quantity.
QtyWarnings ==
    {"Quantity must be > 0.", "Quantity must be greater than zero.", "Quantity must be >0 to add."}

\* The messages an add that appended a line leaves on the screen.
AddedMsgs == {"", "Added"}

\* The rows of the meal in the editor.
EditRows == edit_df[editing_meal].rows

\* Every name the add form can be submitted with, blank included.
AnyName == NameInputs \cup {" ", ""}

\* An add with a quantity <= 0 leaves the list as it was and shows a warning.
C5_Rejected ==
    /\ \A name \in AnyName, sel \in Selections(page, ingredients),
          qty \in {q \in QtyInputs : LeZero(q)}, unit \in UnitChoices(page, ingredients) :
          LET r == AddOutcome(page, meal_ingredients, ingredients, name, sel, qty, unit)
          IN  r.meal_ingredients = meal_ingredients /\ r.msg \notin AddedMsgs
    /\ (page = "meal_builder" /\ editing_meal # None) =>
          \A sel \in Selections(page, ingredients),
             qty \in {q \in QtyInputs : LeZero(q)}, unit \in UnitChoices(page, ingredients) :
             LET r == mb_edit_add_clicked(EditRows, ingredients, sel, qty, unit)
             IN  r.edit = EditRows /\ r.msg \notin AddedMsgs

\* The run that shows a quantity warning changes no list and no stored meal.
C5_Frame ==
    msg' \in QtyWarnings =>
        /\ meal_ingredients' = meal_ingredients
        /\ edit_df' = edit_df
        /\ meals' = meals

\* C5: adding a line item with quantity <= 0, to the draft of a new meal or to
\* a meal in the editor, is rejected with a warning, and the draft, the
\* editor's lines and the stored meals are afterwards what they were before.
C5_NonPositiveQuantityRejected == []C5_Rejected /\ [][C5_Frame]_vars

\* A quantity of 0 was refused while the draft already had a line.
C5_Witness == msg \in QtyWarnings /\ meal_ingredients # <<>>

\* The selection does not resolve to a row of the ingredient file.
Unresolved(p, file, sel) ==
    IF p = "meal_builder"
    THEN Matching(load_ingredients(file), sel) = <<>>
    ELSE bc_match(bc_load_ingredients(file), sel) = <<>>

\* The messages of an ingredient that was not found.
NotFoundMsgs == {"Select an ingredient.", "Ingredient not found.", "IndexError"}

\* An add whose ingredient does not resolve leaves the list as it was and
\* reports it.
C6_Rejected ==
    /\ \A name \in AnyName,
          sel \in {s \in Selections(page, ingredients) \cup {None, "Ghost"} :
                      Unresolved(page, ingredients, s)},
          qty \in QtyInputs, unit \in UnitChoices(page, ingredients) :
          LET r == AddOutcome(page, meal_ingredients, ingredients, name, sel, qty, unit)
          IN  r.meal_ingredients = meal_ingredients /\ r.msg \notin AddedMsgs
    /\ (page = "meal_builder" /\ editing_meal # None) =>
          \A sel \in {s \in Selections(page, ingredients) \cup {None, "Ghost"} :
                         Unresolved(page, ingredients, s)},
             qty \in QtyInputs, unit \in UnitChoices(page, ingredients) :
             LET r == mb_edit_add_clicked(EditRows, ingredients, sel, qty, unit)
             IN  r.edit = EditRows /\ r.msg \notin AddedMsgs

\* The run that reports an ingredient as not found appends nothing.
C6_Frame ==
    msg' \in NotFoundMsgs =>
        /\ meal_ingredients' = meal_ingredients
        /\ edit_df' = edit_df

\* C6: adding a line item whose ingredient does not resolve to an ingredient
\* record is rejected and reported; no line, and so no line of cost 0, is
\* appended, and the draft and the editor's lines stay as they were.
C6_UnknownIngredientRejected == []C6_Rejected /\ [][C6_Frame]_vars

\* With no ingredient on file an add with a name and a quantity was refused.
C6_Witness ==
    /\ ingredients = <<>>
    /\ msg \in {"Select an ingredient.", "Ingredient not found."}
    /\ meal_ingredients = <<>>

\* The first row of the file, as the page loads it, that the selection names.
Resolved(p, file, sel) ==
    IF p = "meal_builder"
    THEN Matching(load_ingredients(file), sel)[1]
    ELSE bc_match(bc_load_ingredients(file), sel)[1]

\* list is before with exactly one line appended, and that line is the
\* conversion, the snapshot and the rounded product the claim names.
AppendedLine(p, before, list, file, sel, qty, unit) ==
    LET ing  == Resolved(p, file, sel)
        line == list[Len(list)]
    IN  /\ Len(list) = Len(before) + 1
        /\ SubSeq(list, 1, Len(before)) = before
        /\ line.Ingredient = sel
        /\ line.InputUnit = unit
        /\ line.Quantity = ToBase(p, qty, unit, ing.UnitType)
        /\ line.CostPerUnit = ing.CostPerUnit
        /\ line.TotalCost = Round6(RMul(line.Quantity, line.CostPerUnit))
        /\ (ing.PurchaseSize = RInt(10) /\ ing.Cost = RInt(20) /\ ing.UnitType = "KG"
            /\ qty = RInt(500) /\ unit = "g")
              => (line.Quantity = Frac(1, 2) /\ line.TotalCost = RInt(1))

\* An add with a name, a quantity > 0 and an ingredient on file appends that line.
C7_Appended ==
    /\ \A name \in NameInputs,
          sel \in {s \in Selections(page, ingredients) : ~Unresolved(page, ingredients, s)},
          qty \in {q \in QtyInputs : ~LeZero(q)}, unit \in UnitChoices(page, ingredients) :
          AppendedLine(page, meal_ingredients,
                       AddOutcome(page, meal_ingredients, ingredients, name, sel, qty, unit)
                           .meal_ingredients,
                       ingredients, sel, qty, unit)
    /\ (page = "meal_builder" /\ editing_meal # None) =>
          \A sel \in {s \in Selections(page, ingredients) : ~Unresolved(page, ingredients, s)},
             qty \in {q \in QtyInputs : ~LeZero(q)}, unit \in UnitChoices(page, ingredients) :
             AppendedLine(page, EditRows,
                          mb_edit_add_clicked(EditRows, ingredients, sel, qty, unit).edit,
                          ingredients, sel, qty, unit)

\* A run that makes the draft longer makes it longer by one line, at the end.
C7_Frame ==
    Len(meal_ingredients') > Len(meal_ingredients) =>
        /\ Len(meal_ingredients') = Len(meal_ingredients) + 1
        /\ SubSeq(meal_ingredients', 1, Len(meal_ingredients)) = meal_ingredients

\* C7: a successful add appends exactly one line at the end of the list, with
\* Quantity = display_to_base(quantity, unit, the ingredient's unit type),
\* Cost Per Unit = the ingredient's cost per unit, Total Cost = Quantity x
\* Cost Per Unit rounded to 6 places; the earlier lines keep their values and
\* order.  10 kg of flour bought for 20, added as 500 g: Quantity 0.5, Total
\* Cost 1.0.
C7_AddAppendsOneLine == []C7_Appended /\ [][C7_Frame]_vars

\* The flour of the example was added as 500 g behind an earlier line.
C7_Witness ==
    /\ Len(meal_ingredients) = 2
    /\ meal_ingredients[2].Ingredient = "Flour"
    /\ meal_ingredients[2].InputUnit = "g"
    /\ meal_ingredients[2].Quantity = Frac(1, 2)
    /\ meal_ingredients[2].CostPerUnit = RInt(2)
    /\ meal_ingredients[2].TotalCost = RInt(1)
    /\ meal_ingredients[1].Quantity = RInt(500)

\* A run that changes an ingredient file or the pending ingredients leaves
\* every stored meal line as it was.
C8_IngredientsFrame ==
    (ingredients' # ingredients \/ gh_ingredients' # gh_ingredients
        \/ pending_ings' # pending_ings)
      => meals' = meals

\* A run of Save Changes stores each of the editor's lines with the Cost Per
\* Unit the line already had and Total Cost = the new Quantity x that value.
C8_SaveKeepsSnapshot ==
    (editing_meal # None /\ msg' = "Saved") =>
        LET old == EditRows
            new == SubSeq(meals', Len(meals') - Len(old) + 1, Len(meals'))
        IN  \A i \in 1..Len(old) :
                /\ new[i].Ingredient = old[i].Ingredient
                /\ new[i].CostPerUnit = old[i].CostPerUnit
                /\ new[i].TotalCost = Round6(RMul(new[i].Quantity, old[i].CostPerUnit))

\* C8: once a meal is saved, no change of the ingredients (a new cost, a new
\* purchase size, ingredients added or saved again) changes the Cost Per Unit
\* or the Total Cost of a stored line; and saving the meal from the editor
\* computes Total Cost from the Cost Per Unit stored in the line, not from
\* the ingredient's price of the moment.
C8_CostSnapshot == [][C8_IngredientsFrame /\ C8_SaveKeepsSnapshot]_vars

\* What the ingredient file says an ingredient costs per unit now.
CurrentCostPerUnit(name) == Matching(load_ingredients(ingredients), name)[1].CostPerUnit

\* The egg went from 0 to 5 per unit after the meal was saved; the meal was
\* then saved from the editor with another quantity, and its line still
\* carries 0.
C8_Witness ==
    /\ msg = "Saved"
    /\ meals # <<>>
    /\ meals[1].Ingredient = "Egg"
    /\ meals[1].Quantity = Frac(1, 2)
    /\ meals[1].CostPerUnit = Zero
    /\ meals[1].TotalCost = Zero
    /\ CurrentCostPerUnit("Egg") = RInt(5)

RECURSIVE SumTotalCost(_)
\* The sum of the Total Cost of the rows.
SumTotalCost(rows) ==
    IF rows = <<>>
    THEN Zero
    ELSE RAdd(SumTotalCost(SubSeq(rows, 1, Len(rows) - 1)), rows[Len(rows)].TotalCost)

\* C9: for every meal the dashboard lists, the ingredient cost it shows is
\* the sum of the Total Cost of the stored lines of that meal and of no other
\* meal; it lists every meal that has a stored line, and the lines of a meal
\* without any sum to 0.
C9_DashboardSumsLines ==
    dash.shown =>
        /\ DOMAIN dash.Ingredients = MealsOf(meals)
        /\ \A m \in MealsOf(meals) :
              dash.Ingredients[m] = SumTotalCost(MealRows(meals, m))
        /\ \A m \in MealNames \ MealsOf(meals) : SumTotalCost(MealRows(meals, m)) = Zero

\* The dashboard showed two meals with different ingredient costs.
C9_Witness ==
    /\ dash.shown
    /\ DOMAIN dash.Ingredients = {"A", "B"}
    /\ dash.Ingredients["A"] # dash.Ingredients["B"]
    /\ ~IsZero(dash.Ingredients["A"])

\* The editor's rows after Remove on row idx, on the page p.
AfterRemove(p, rows, idx) == IF p = "meal_builder" THEN DropAt(rows, idx) ELSE rows

\* The file after Save Changes with no widget touched, on the page p.
AfterSaveUntouched(p, mdf, rows, file, mn) ==
    IF p = "meal_builder"
    THEN save_edit_meal(mdf, rows, mn,
                        [i \in 1..Len(rows) |-> mb_default_qty(rows[i])],
                        [i \in 1..Len(rows) |-> mb_default_unit(rows[i])],
                        mn, RInt(10))
    ELSE LET df == bc_load_ingredients(file)
         IN  bc_save_changes(mdf,
                 bc_new_rows(rows, df,
                             [i \in 1..Len(rows) |-> bc_default_qty(rows[i], df)],
                             [i \in 1..Len(rows) |-> bc_default_unit(rows[i], df)]),
                 mn, mn)

\* The ingredients of the rows, in order.
IngredientsOf(rows) == [i \in 1..Len(rows) |-> rows[i].Ingredient]

\* C10: removing the line at a valid position in the editor and then pressing
\* Save Changes stores the meal with its previous lines minus the removed
\* one, in their order; the removed line is not in the stored meal.
C10_RemoveThenSave ==
    (editing_meal # None /\ edit_df[editing_meal].loaded) =>
        \A idx \in 1..Len(EditRows) :
            LET left   == AfterRemove(page, EditRows, idx)
                stored == AfterSaveUntouched(page, meals, left, ingredients, editing_meal)
            IN  /\ Len(MealRows(stored, editing_meal)) = Len(EditRows) - 1
                /\ IngredientsOf(MealRows(stored, editing_meal))
                      = IngredientsOf(DropAt(EditRows, idx))

-----------------------------------------------------------------------------
(* The costing table                                                       *)

\* The three derived columns of one row; the quotient Profit Margin / Sell
\* Price is stated by cross-multiplication, where the Sell Price is not 0.
C11_RowDerived(r) ==
    /\ r.TotalCost = RAdd(r.Ingredients, r.OtherCosts)
    /\ RAdd(r.ProfitMargin, r.TotalCost) = r.SellPrice
    /\ ~IsZero(r.SellPrice) => RMul(r.MarginPct, r.SellPrice) = RMulInt(r.ProfitMargin, 100)
    /\ (r.Ingredients = RInt(1) /\ r.OtherCosts = RInt(13) /\ r.SellPrice = RInt(20))
          => (r.TotalCost = RInt(14) /\ r.ProfitMargin = RInt(6) /\ r.MarginPct = RInt(30))

\* C11: every row of the dashboard's costing table, in the table as merged
\* from the files and in the table as edited by the user, has Total Cost =
\* Ingredients + Other Costs, Profit Margin = Sell Price - Total Cost and
\* Margin % = Profit Margin / Sell Price x 100 (wherever the Sell Price is not
\* 0, so that the quotient exists); a row of 1, 13 and 20 shows 14, 6 and 30.
C11_DerivedColumns ==
    \A table \in {costing.merged, costing.display_df} :
        \A i \in 1..Len(table) : C11_RowDerived(table[i])

\* The user has typed 13 and 20 into a row and the table shows a margin of 30,
\* next to a merged row that still has its defaults.
C11_Witness ==
    /\ costing.shown
    /\ \E i \in 1..Len(costing.display_df) :
          /\ costing.cells[i] = [OtherCosts |-> RInt(13), SellPrice |-> RInt(20)]
          /\ costing.display_df[i].MarginPct = RInt(30)
          /\ costing.merged[i].OtherCosts = Zero
          /\ costing.merged[i].MarginPct = Zero

\* C12: wherever the program shows a margin percent (the rows of the costing
\* table of dashboard.py, its overall margin, the rows of tab1 of app.py), a
\* sell price of 0 gives a margin percent of exactly 0, whatever the costs.
C12_ZeroSellZeroMargin ==
    /\ \A table \in {costing.merged, costing.display_df, app_screen.tab1} :
          \A i \in 1..Len(table) :
             IsZero(table[i].SellPrice) => table[i].MarginPct = Zero
    /\ IsZero(column_sum(costing.display_df, "SellPrice", 1)) => costing.overall_pct = Zero

-----------------------------------------------------------------------------
(* Business costs                                                          *)

\* The per-meal overhead of one business cost line under the allocation rule,
\* for a usage factor and a number of meals produced this month.
C13_Allocation(line, usage, produced) ==
    CASE line.Unit = "per item"   -> RMul(line.Amount, usage)
      [] line.Unit = "per meal"   -> line.Amount
      [] line.Unit = "per carton" -> RDivInt(line.Amount, 24)
      [] line.Unit = "per month"  -> RDiv(line.Amount, produced)
      [] line.Unit = "per week"   -> RDiv(line.Amount, RDivInt(produced, 4))
      [] OTHER -> IF IsZero(usage) \/ IsNeg(usage) THEN Zero ELSE RDiv(line.Amount, usage)

C13_UsageFactors == {Zero, RInt(1), RInt(3)}

C13_Produced == {RInt(1000)}

\* C13: the overhead charged per meal for one business cost line follows its
\* allocation unit: per item amount x usage factor, per meal the amount, per
\* carton amount / 24, per month amount / meals produced this month, per week
\* amount / (meals produced this month / 4), anything else amount / usage
\* factor, or 0 without one.  Here: the business cost tab3 prints for a single
\* line is that line's allocation for some usage factor and production.
C13_AllocationByUnit ==
    (app_screen.shown /\ Len(app_screen.business_df) = 1) =>
        \E usage \in C13_UsageFactors, produced \in C13_Produced :
            app_screen.business_cost =
                Round2(C13_Allocation(app_screen.business_df[1], usage, produced))

\* C14: in one computation of the dashboard every meal is charged the same
\* overhead: the Other Costs of any two rows of the costing table, as merged
\* and as shown, are equal.
C14_SharedOverhead ==
    \A table \in {costing.merged, costing.display_df} :
        \A i, j \in 1..Len(table) : table[i].OtherCosts = table[j].OtherCosts

-----------------------------------------------------------------------------
(* Names as keys                                                           *)

\* A step that stores the draft of the new meal.
C15_DraftSaved == meal_ingredients # <<>> /\ meal_ingredients' = <<>> /\ meals' # meals

\* A step that stores the editor's rows and closes the editor.
C15_EditSaved == editing_meal # None /\ editing_meal' = None /\ meals' # meals

\* C15: meal names are a unique key, two meals are never merged under one
\* name.  Storing a new meal leaves under every name that had lines either
\* the lines it had or the lines of the draft, never both; storing the edited
\* meal, under its own or a new name, leaves the lines of every other meal as
\* they were.
C15_NamesNeverMerge ==
    [][ /\ C15_DraftSaved =>
              \A m \in MealsOf(meals) :
                  \/ IngredientsOf(MealRows(meals', m)) = IngredientsOf(MealRows(meals, m))
                  \/ IngredientsOf(MealRows(meals', m)) = IngredientsOf(meal_ingredients)
        /\ C15_EditSaved =>
              \A m \in MealsOf(meals) \ {editing_meal} :
                  MealRows(meals', m) = MealRows(meals, m) ]_vars

\* C16: ingredient names are a unique key after trimming and title-casing:
\* no two records of the saved ingredient list, on the local disk or on
\* GitHub, have the same normalized name.
C16_IngredientNamesUnique ==
    \A list \in {ingredients, gh_ingredients.rows} :
        \A i, j \in 1..Len(list) :
            StripTitle(list[i].Ingredient) = StripTitle(list[j].Ingredient) => i = j

-----------------------------------------------------------------------------
(* Saving while the commit to GitHub fails                                 *)

\* The names of the rows of an ingredient list.
C17_Names(list) == {list[i].Ingredient : i \in 1..Len(list)}

\* C17: an ingredient saved while the commit to GitHub fails, or while GitHub
\* still serves the older file, is kept: the list load_ingredients returns
\* after Save Ingredients contains every ingredient just saved, and no later
\* load loses an ingredient of the local list.
C17_SavedIngredientsKept ==
    [][ /\ (pending_ings # <<>> /\ pending_ings' = <<>>) =>
              C17_Names(pending_ings) \subseteq C17_Names(ingredients')
        /\ C17_Names(ingredients) \subseteq C17_Names(ingredients') ]_vars

-----------------------------------------------------------------------------
(* Stored lines whose ingredient is gone                                   *)

\* The stored lines of meal m whose ingredient is in the ingredient list.
C18_Resolvable(m) ==
    LET Known(r) == r.Ingredient \in C17_Names(ingredients)
    IN  SelectSeq(MealRows(meals, m), Known)

\* C18: a stored line whose ingredient no longer exists does not abort the
\* dashboard: every stored meal has its row, and the missing line counts as 0
\* in its meal's ingredient cost, which is the sum over the lines whose
\* ingredient exists; the other meals' costs are those of their lines.
C18_MissingIngredientCountsZero ==
    dash.shown =>
        /\ DOMAIN dash.Ingredients = MealsOf(meals)
        /\ \A m \in MealsOf(meals) :
              dash.Ingredients[m] = SumTotalCost(C18_Resolvable(m))

-----------------------------------------------------------------------------
(* Cost monotonicity                                                       *)

\* Every line item the program holds: stored, in the draft, in an editor.
C19_Lines ==
    SeqToSet(meals) \cup SeqToSet(meal_ingredients)
        \cup UNION {SeqToSet(edit_df[m].rows) : m \in MealNames}

\* x < y
C19_Less(x, y) == IsNeg(RSub(x, y))

\* Two line items of one ingredient at one cost per unit, the second of the
\* larger quantity.
C19_Comparable(a, b) ==
    /\ a.Ingredient = b.Ingredient
    /\ a.CostPerUnit = b.CostPerUnit
    /\ C19_Less(a.Quantity, b.Quantity)

\* The ingredient costs of the stored meals that hold the line a, each paired
\* with what it becomes when b takes the place of a.
C19_MealCosts(a, b) ==
    { <<SumTotalCost(MealRows(meals, m)),
        SumTotalCost([MealRows(meals, m) EXCEPT ![i] = b])>> :
          <<m, i>> \in { <<n, k>> \in MealsOf(meals) \X (1..Len(meals)) :
                            k <= Len(MealRows(meals, n)) /\ MealRows(meals, n)[k] = a } }

\* C19 as stated: at a fixed cost per unit a strictly larger quantity gives a
\* strictly larger line Total Cost and a strictly larger ingredient cost of
\* the meal, for every ingredient the program accepts.
C19_StrictlyMonotone ==
    \A a, b \in C19_Lines :
        C19_Comparable(a, b) =>
            /\ C19_Less(a.TotalCost, b.TotalCost)
            /\ \A c \in C19_MealCosts(a, b) : C19_Less(c[1], c[2])

\* The cost per unit is positive and the two quantities differ in cost by at
\* least 0.000002, twice the step the total is rounded to.
C19_Apart(a, b) ==
    /\ C19_Less(Zero, a.CostPerUnit)
    /\ RLe(Frac(2, Thousand * Thousand), RMul(RSub(b.Quantity, a.Quantity), a.CostPerUnit))

\* C19, amended: at a fixed cost per unit a strictly larger quantity gives a
\* line Total Cost, and an ingredient cost of the meal, that is never
\* smaller, and a strictly larger one when the cost per unit is positive and
\* the two quantities differ in cost by at least 0.000002.
C19_Monotone ==
    \A a, b \in C19_Lines :
        C19_Comparable(a, b) =>
            /\ RLe(a.TotalCost, b.TotalCost)
            /\ \A c \in C19_MealCosts(a, b) : RLe(c[1], c[2])
            /\ C19_Apart(a, b) =>
                  /\ C19_Less(a.TotalCost, b.TotalCost)
                  /\ \A c \in C19_MealCosts(a, b) : C19_Less(c[1], c[2])

\* Two lines of one ingredient at a positive cost per unit, the larger
\* quantity with the larger total.
C19_Witness ==
    \E a, b \in C19_Lines :
        /\ C19_Comparable(a, b)
        /\ C19_Apart(a, b)
        /\ C19_Less(a.TotalCost, b.TotalCost)
        /\ \E c \in C19_MealCosts(a, b) : C19_Less(c[1], c[2])

-----------------------------------------------------------------------------
(* Saving a new meal without line items                                    *)

\* What Save Meal of meal_builder.py answers.
C20_SaveMsgs ==
    {"Meal saved!", "Add at least one ingredient before saving.", "Enter a meal name."}

\* C20 as stated: Save Meal on a draft with a name and no line items is
\* accepted: whenever Save Meal answers on an empty draft, it answers that the
\* meal was saved.
C20_EmptyMealAccepted ==
    [][(meal_ingredients = <<>> /\ msg' \in C20_SaveMsgs) => msg' = "Meal saved!"]_vars

\* C20, amended: a new meal is not saved with zero line items: over an empty
\* draft no step answers that a meal was saved, and Save Meal of
\* meal_builder.py answers "Add at least one ingredient before saving." and
\* leaves the stored meals and the draft as they were.
C20_EmptyMealRefused ==
    [][meal_ingredients = <<>> =>
          /\ msg' # "Meal saved!"
          /\ msg' \in C20_SaveMsgs =>
                /\ msg' = "Add at least one ingredient before saving."
                /\ UNCHANGED <<meals, meal_ingredients>>]_vars

\* Save Meal of meal_builder.py was pressed over an empty draft while a meal
\* was stored.
C20_Witness ==
    /\ page = "meal_builder"
    /\ msg = "Add at least one ingredient before saving."
    /\ meal_ingredients = <<>>
    /\ meals # <<>>

-----------------------------------------------------------------------------
(* Save Changes and the life of a stored meal                              *)

\* What Save Changes answers: meal_builder.py, then business_costs.py saved
\* and refused.
C21_SaveChangesMsgs ==
    {"Saved", "Updated", "Meal must have at least one ingredient. Aborting save."}

\* C21: Save Changes in the meal editor never removes the meal from the
\* store: after it the store holds, besides the lines of the other meals, at
\* least one line of the edited meal (under its final name), also when every
\* line was removed in the editor before saving.
C21_SaveChangesKeepsMeal ==
    [][(editing_meal # None /\ msg' \in C21_SaveChangesMsgs)
          => Len(meals') > Len(OtherRows(meals, editing_meal))]_vars

-----------------------------------------------------------------------------
(* The quantities of the stored lines                                      *)

\* C22: every stored line item of every meal has Quantity > 0, whatever was
\* added, edited in the editor and saved.
C22_StoredQuantitiesPositive ==
    \A i \in 1..Len(meals) : ~LeZero(meals[i].Quantity)

-----------------------------------------------------------------------------
(* Saving from the editor with no widget touched                           *)

\* C23: a saved meal opened in the editor and saved with Save Changes, no
\* quantity or unit widget touched, keeps the stored base Quantity and Total
\* Cost of every line, whatever the unit type, the Input Unit and the
\* quantity of the line.
C23_EditSaveIdempotent ==
    (editing_meal # None /\ edit_df[editing_meal].loaded
        /\ EditRows = MealRows(meals, editing_meal)) =>
        LET stored == MealRows(AfterSaveUntouched(page, meals, EditRows, ingredients,
                                                  editing_meal), editing_meal)
        IN  /\ Len(stored) = Len(EditRows)
            /\ \A i \in 1..Len(EditRows) :
                  /\ stored[i].Quantity = EditRows[i].Quantity
                  /\ stored[i].TotalCost = EditRows[i].TotalCost

-----------------------------------------------------------------------------
(* The total cost of a stored line                                         *)

\* C24: every stored line item has Total Cost = round(Quantity x Cost Per
\* Unit, 6), whatever was added, edited, removed, renamed and saved.
C24_TotalCostDerived ==
    \A i \in 1..Len(meals) :
        meals[i].TotalCost = Round6(RMul(meals[i].Quantity, meals[i].CostPerUnit))

\* Save Changes has stored a line whose total is the rounded product and not
\* the product itself.
C24_Witness ==
    /\ msg \in {"Saved", "Updated"}
    /\ \E i \in 1..Len(meals) :
          /\ meals[i].TotalCost # RMul(meals[i].Quantity, meals[i].CostPerUnit)
          /\ meals[i].TotalCost = Round6(RMul(meals[i].Quantity, meals[i].CostPerUnit))

-----------------------------------------------------------------------------
(* A line added in the editor                                              *)

\* The run was a successful Add Ingredient inside the editor: on the page of
\* meal_builder.py the working copy has grown by a line, on the page of
\* business_costs.py the editor has answered that the line was added.
C25_AddedInEditor ==
    /\ editing_meal # None
    /\ editing_meal' = editing_meal
    /\ IF page = "meal_builder"
       THEN Len(edit_df'[editing_meal].rows) = Len(edit_df[editing_meal].rows) + 1
       ELSE msg' = "Added" /\ meal_ingredients' = meal_ingredients

\* C25: a line item successfully added to a meal in the editor is part of the
\* stored meal after a following Save Changes, after the lines the meal had
\* in the editor before.
C25_EditorAddIsSaved ==
    [][C25_AddedInEditor =>
          LET before == edit_df[editing_meal].rows
              stored == MealRows(AfterSaveUntouched(page, meals', edit_df'[editing_meal].rows,
                                                    ingredients', editing_meal),
                                 editing_meal)
          IN  /\ Len(stored) = Len(before) + 1
              /\ IngredientsOf(SubSeq(stored, 1, Len(before))) = IngredientsOf(before)]_vars

-----------------------------------------------------------------------------
(* Delete Meal                                                             *)

\* The positions of the stored lines that belong to other meals than mn.
C26_Kept(mn) == {i \in 1..Len(meals) : meals[i].Meal # mn}

\* The k-th of those positions.
C26_Nth(mn, k) ==
    CHOOSE i \in C26_Kept(mn) : Cardinality({j \in C26_Kept(mn) : j <= i}) = k

\* C26: Delete Meal removes every stored line of the meal in the editor and
\* nothing else: the lines of the other meals stay, unchanged and in their
\* order, and no meal is being edited afterwards.
C26_DeleteMealFrame ==
    [][(editing_meal # None /\ msg' = "Deleted") =>
          /\ Len(meals') = Cardinality(C26_Kept(editing_meal))
          /\ \A k \in 1..Len(meals') : meals'[k] = meals[C26_Nth(editing_meal, k)]
          /\ editing_meal' = None]_vars

\* A meal has been deleted and two lines of another meal are left.
C26_Witness == msg = "Deleted" /\ Len(meals) = 2 /\ editing_meal = None

-----------------------------------------------------------------------------
(* The sell price on the dashboard                                         *)

\* C27: the sell price the dashboard uses for a meal is the sell price saved
\* with the meal in the meal builder.
C27_DashboardSellPrice ==
    costing.shown =>
        \A i \in 1..Len(costing.display_df), j \in 1..Len(meals) :
            (meals[j].Meal = costing.display_df[i].Meal /\ meals[j].SellPrice # NaN)
                => costing.display_df[i].SellPrice = meals[j].SellPrice

-----------------------------------------------------------------------------
(* The login gate                                                          *)

\* A run of the script has passed the gate into the code below it.
C28_GatePassed == auth_pc = "queued" /\ auth_pc' = "app"

\* The session has become authenticated.
C28_LoggedIn == authenticated' /\ ~authenticated

\* C28: the code after the gate runs only if the session is authenticated and
\* the time since login is at most SESSION_TIMEOUT, and a wrong password never
\* sets authenticated to true.
C28_GateSafety ==
    [][/\ C28_GatePassed =>
            /\ authenticated'
            /\ "login_time" \in session_keys'
            /\ now' - login_time' <= SESSION_TIMEOUT
       /\ C28_LoggedIn => (submitted /\ input_pw = password)]_vars

\* After a wrong password and then the right one, at a later instant than
\* the first, the session is past the gate exactly SESSION_TIMEOUT after login.
C28_Witness ==
    /\ auth_pc = "app"
    /\ authenticated
    /\ login_time > 0
    /\ now - login_time = SESSION_TIMEOUT

\* The session has expired and a run of the script is due.
C29_Expired ==
    /\ "login_time" \in session_keys
    /\ now - login_time > SESSION_TIMEOUT
    /\ auth_pc = "queued"

\* C29: after a session has expired the login form is eventually shown
\* again: the reruns the expiry triggers come to an end.
C29_ExpiredSessionShowsLogin == C29_Expired ~> (auth_pc = "form")

-----------------------------------------------------------------------------
(* Save Ingredients                                                        *)

\* C30: Save Ingredients loses nothing and duplicates nothing: afterwards the
\* saved ingredient list names the previously saved ingredients followed by
\* every pending draft ingredient, each once and in order, and the pending
\* draft list is empty.
C30_SaveAppendsPending ==
    [][(pending_ings # <<>> /\ pending_ings' = <<>>) =>
          IngredientsOf(ingredients') = IngredientsOf(ingredients \o pending_ings)]_vars

====
